---- MODULE Spec2Model ----
(***************************************************************************)
(* Model of the editing core of vedit (src/src/editor.rs) and of the host  *)
(* loop's proposal poll and diff-mode key dispatch (src/src/ui.rs).        *)
(*                                                                         *)
(* A line is a sequence of characters; a character is a one-element        *)
(* string.  "W" stands for a double-width, three-byte glyph so that        *)
(* display columns, byte offsets and character positions differ.           *)
(* Indices named as in the source (cursor_y, undo_index, old_start, byte   *)
(* offsets) are 0-based; TLA+ sequences are 1-based, hence the "+ 1".      *)
(***************************************************************************)
EXTENDS Integers, Sequences, FiniteSets, TLC

(* ------------------------------ bounds --------------------------------- *)
MaxHistory == 2
MaxCol == 1
MaxLines == 2
MaxLineLen == 2
MaxSessions == 1
MaxRequests == 2
MaxKeyCol == 4
MaxRoundTripLines == 3
MaxSelCol == 4
MaxSearchLineLen == 6
MaxSortLines == 3
MaxTypeCol == 5

(* the terminal's text area, less its borders *)
EditorVisibleHeight == 24
EditorVisibleWidth == 80

NL == "\n"
CR == "\r"

TypedChars == {"a"}

(* file contents the editing sessions start from *)
InitTexts ==
  { <<>>,
    <<"W">>,
    <<"a", NL, "b">>,
    <<"a", CR, NL, "b", NL>> }

(* file contents the review sessions start from *)
DiffInitTexts ==
  { <<"a">>,
    <<"a", NL, "b">>,
    <<"a", NL, "b", NL, "c">> }

(* texts the rewrite worker answers with *)
Proposals ==
  { <<>>,
    <<"a", NL, "b">>,
    <<"x", NL, "b">>,
    <<"a", NL, "x", NL, "b">>,
    <<"x", NL, "b", NL, "y">>,
    <<"b", NL, "c", NL, "d">> }

RoundTripLines == { <<>>, <<"a">>, <<"W", "a">> }

(* file contents the selection sessions start from *)
BlockInitTexts ==
  { <<"a", "a", "a", "a", "a", NL, "b", "b", "b", "b", "b">>,
    <<"b", "1", NL, "a">>,
    <<"W", "a">> }

FillChars == {"x"}

(* file contents the search sessions start from *)
SearchInitTexts ==
  { <<"B", "a", "n", "a", "n", "a", NL, "a", "p", "p", "l", "e">>,
    <<"W", "a">> }

SearchTargets == { <<>>, <<"a">>, <<"a", "n">>, <<"W">> }

ReplaceTexts == { <<>>, <<"x">> }

(* the lines the sorted buffers are made of *)
SortLines == { <<"b", "1">>, <<"a", "2">>, <<"a", "1">>, <<"a">> }

(* file contents and glyphs of the typing sessions *)
TypeInitTexts ==
  { <<>>, <<"a">>, <<"W">>, <<"a", "b", NL, "W">> }

TypedGlyphs == {"Z", "W"}

(* key lists (start column, end column, ascending) *)
SortSpecLists ==
  { <<>>,
    << <<0, 1, TRUE>> >>,
    << <<0, 1, FALSE>> >>,
    << <<1, 2, TRUE>> >>,
    << <<0, 1, TRUE>>, <<1, 2, FALSE>> >>,
    << <<1, 2, TRUE>>, <<0, 1, TRUE>> >> }

(* --------------------------- strings (Rust) ---------------------------- *)
Min(a, b) == IF a < b THEN a ELSE b
Max(a, b) == IF a < b THEN b ELSE a

CharWidth(c) == IF c = "W" THEN 2 ELSE 1
CharLen(c) == IF c = "W" THEN 3 ELSE 1

RECURSIVE width(_)
width(line) ==
  IF line = <<>> THEN 0 ELSE CharWidth(Head(line)) + width(Tail(line))

RECURSIVE len(_)
len(line) ==
  IF line = <<>> THEN 0 ELSE CharLen(Head(line)) + len(Tail(line))

repeat(c, n) == [k \in 1..n |-> c]

(* number of characters that start before byte offset b *)
RECURSIVE CharsBefore(_, _)
CharsBefore(line, b) ==
  IF line = <<>> \/ b <= 0 THEN 0
  ELSE 1 + CharsBefore(Tail(line), b - CharLen(Head(line)))

RECURSIVE column_to_byte_index_from(_, _, _, _)
column_to_byte_index_from(rest, column, current_width, byte_index) ==
  IF rest = <<>> THEN byte_index
  ELSE IF current_width >= column THEN byte_index
  ELSE column_to_byte_index_from(Tail(rest), column,
                                 current_width + CharWidth(Head(rest)),
                                 byte_index + CharLen(Head(rest)))

column_to_byte_index(line, column) ==
  column_to_byte_index_from(line, column, 0, 0)

(* String::remove / insert / push / slicing at a byte offset *)
str_remove(line, b) ==
  LET k == CharsBefore(line, b)
  IN SubSeq(line, 1, k) \o SubSeq(line, k + 2, Len(line))

str_insert(line, b, c) ==
  LET k == CharsBefore(line, b)
  IN SubSeq(line, 1, k) \o <<c>> \o SubSeq(line, k + 1, Len(line))

str_from(line, b) == SubSeq(line, CharsBefore(line, b) + 1, Len(line))

str_truncate(line, b) == SubSeq(line, 1, CharsBefore(line, b))

(* Vec::remove / Vec::insert at a 0-based position *)
vec_remove(v, i) == SubSeq(v, 1, i) \o SubSeq(v, i + 2, Len(v))

vec_insert(v, i, x) == SubSeq(v, 1, i) \o <<x>> \o SubSeq(v, i + 1, Len(v))

(* str::split('\n'): n line feeds give n + 1 pieces *)
RECURSIVE split_nl(_, _, _)
split_nl(text, cur, acc) ==
  IF text = <<>> THEN Append(acc, cur)
  ELSE IF Head(text) = NL THEN split_nl(Tail(text), <<>>, Append(acc, cur))
  ELSE split_nl(Tail(text), Append(cur, Head(text)), acc)

strip_cr(l) ==
  IF l # <<>> /\ l[Len(l)] = CR THEN SubSeq(l, 1, Len(l) - 1) ELSE l

(* str::lines(): pieces ended by a line feed (a carriage return before it  *)
(* is dropped), and a last piece only when it is not empty                 *)
lines(text) ==
  LET pieces == split_nl(text, <<>>, <<>>)
      n == Len(pieces)
      ended == [k \in 1..(n - 1) |-> strip_cr(pieces[k])]
  IN IF pieces[n] = <<>> THEN ended ELSE Append(ended, pieces[n])

(* str::replace of one character, and of the pair "\r\n" by "\n" *)
RECURSIVE replace_crlf(_)
replace_crlf(text) ==
  IF text = <<>> THEN <<>>
  ELSE IF Len(text) >= 2 /\ text[1] = CR /\ text[2] = NL
  THEN <<NL>> \o replace_crlf(SubSeq(text, 3, Len(text)))
  ELSE <<Head(text)>> \o replace_crlf(Tail(text))

replace_cr(text) == [k \in 1..Len(text) |-> IF text[k] = CR THEN NL ELSE text[k]]

(* main.rs: line endings are normalised before the editor is built *)
read_contents(file_text) == replace_cr(replace_crlf(file_text))

(* [String]::join("\n") *)
RECURSIVE join(_)
join(buf) ==
  IF buf = <<>> THEN <<>>
  ELSE IF Len(buf) = 1 THEN buf[1]
  ELSE buf[1] \o <<NL>> \o join(Tail(buf))

(* ------------------------------ state ---------------------------------- *)
VARIABLES buffer, cursor_x, cursor_y, scroll_x, scroll_y, overwrite_mode,
          modified, read_only, virtual_cursor, undo_history, undo_index,
          last_save_state, diff_mode, ai_response_receiver, sessions,
          ai_status, workers, dropped_results,
          panicked, last_op, discarded,
          selection_start, selection_end, selection_mode,
          search_target, search_scope, search_case_sensitive,
          search_matches, current_match_index, matches_in_last_line,
          replace_text, replace_all, overflow_checks

vars == <<buffer, cursor_x, cursor_y, scroll_x, scroll_y, overwrite_mode,
          modified, read_only, virtual_cursor, undo_history, undo_index,
          last_save_state, diff_mode, ai_response_receiver, sessions,
          ai_status, workers, dropped_results,
          panicked, last_op, discarded,
          selection_start, selection_end, selection_mode,
          search_target, search_scope, search_case_sensitive,
          search_matches, current_match_index, matches_in_last_line,
          replace_text, replace_all, overflow_checks>>

(* host-loop state that the editor operations leave alone *)
host == <<ai_status, workers, dropped_results>>

(* everything the host loop's status and worker bookkeeping leaves alone *)
editor_state == <<buffer, cursor_x, cursor_y, scroll_x, scroll_y,
                  overwrite_mode, modified, read_only, virtual_cursor,
                  undo_history, undo_index, last_save_state, diff_mode,
                  panicked, last_op, discarded,
                  selection_start, selection_end, selection_mode,
                  search_target, search_scope, search_case_sensitive,
                  search_matches, current_match_index,
                  matches_in_last_line, replace_text, replace_all,
                  overflow_checks>>

HostIdle ==
  /\ ai_status = "Idle"
  /\ workers = 0
  /\ dropped_results = 0

(* Option<T>: None, Some(v) *)
None == <<>>
Some(v) == <<v>>
is_some(o) == o # <<>>
unwrap(o) == o[1]

Inactive ==
  [active |-> FALSE, original_buffer |-> <<>>, modified_buffer |-> <<>>,
   hunks |-> <<>>, current_hunk |-> 0, accept_all |-> FALSE]

(* the Editor object as one record *)
self ==
  [buffer |-> buffer, cursor_x |-> cursor_x, cursor_y |-> cursor_y,
   scroll_x |-> scroll_x, scroll_y |-> scroll_y,
   overwrite_mode |-> overwrite_mode, modified |-> modified,
   read_only |-> read_only, virtual_cursor |-> virtual_cursor,
   undo_history |-> undo_history, undo_index |-> undo_index,
   last_save_state |-> last_save_state, diff_mode |-> diff_mode,
   selection_start |-> selection_start, selection_end |-> selection_end,
   selection_mode |-> selection_mode,
   search_target |-> search_target, search_scope |-> search_scope,
   search_case_sensitive |-> search_case_sensitive,
   search_matches |-> search_matches,
   current_match_index |-> current_match_index,
   matches_in_last_line |-> matches_in_last_line,
   replace_text |-> replace_text, replace_all |-> replace_all,
   panicked |-> panicked]

new(contents, vcur) ==
  LET split == lines(contents)
      buf == IF split = <<>> THEN << <<>> >> ELSE split
  IN [buffer |-> buf, cursor_x |-> 0, cursor_y |-> 0,
      scroll_x |-> 0, scroll_y |-> 0,
      overwrite_mode |-> TRUE, modified |-> FALSE,
      read_only |-> FALSE, virtual_cursor |-> vcur,
      undo_history |-> <<buf>>, undo_index |-> 0,
      last_save_state |-> buf, diff_mode |-> Inactive,
      selection_start |-> None, selection_end |-> None,
      selection_mode |-> "None",
      search_target |-> None, search_scope |-> "All",
      search_case_sensitive |-> TRUE,
      search_matches |-> <<>>,
      current_match_index |-> 0,
      matches_in_last_line |-> 0,
      replace_text |-> None, replace_all |-> FALSE,
      panicked |-> FALSE]

(* an index out of range, a failed clamp: the thread panics *)
panic(e) == [e EXCEPT !.panicked = TRUE]

(* usize arithmetic.  With overflow checks (the debug profile) a result    *)
(* outside the type panics, without them (the release profile) it wraps.   *)
(* The program's usize is 64 bits wide; the model wraps at UsizeModulus,   *)
(* far above every column and row it builds, so that the wrapped values    *)
(* stay within the integers of the model checker.                          *)
UsizeModulus == 65536

usize_overflows(v) == v < 0 \/ v >= UsizeModulus

usize_wrap(v) == v % UsizeModulus

(* isize::MAX, the largest capacity a String can have *)
IsizeMax == (UsizeModulus \div 2) - 1

scroll(e) ==
  LET sy1 == IF e.cursor_y < e.scroll_y THEN e.cursor_y ELSE e.scroll_y
      sy2 == IF e.cursor_y >= sy1 + EditorVisibleHeight
             THEN e.cursor_y - EditorVisibleHeight + 1 ELSE sy1
      sx1 == IF e.cursor_x < e.scroll_x THEN e.cursor_x ELSE e.scroll_x
      sx2 == IF e.cursor_x >= sx1 + EditorVisibleWidth
             THEN e.cursor_x - EditorVisibleWidth + 1 ELSE sx1
  IN [e EXCEPT !.scroll_y = sy2, !.scroll_x = sx2]

(* ---------------------------- undo / redo ------------------------------ *)
save_state_keep_tail(e) ==
  [e EXCEPT !.undo_history = Append(e.undo_history, e.buffer),
            !.undo_index = e.undo_index + 1]

save_state_truncate_short(e) ==
  LET kept == IF e.undo_index < Len(e.undo_history) - 1
              THEN SubSeq(e.undo_history, 1, e.undo_index)
              ELSE e.undo_history
  IN [e EXCEPT !.undo_history = Append(kept, e.buffer),
               !.undo_index = e.undo_index + 1]

save_state(e) ==
  LET kept == IF e.undo_index < Len(e.undo_history) - 1
              THEN SubSeq(e.undo_history, 1, e.undo_index + 1)
              ELSE e.undo_history
  IN [e EXCEPT !.undo_history = Append(kept, e.buffer),
               !.undo_index = e.undo_index + 1]

mark_as_saved(e) ==
  [e EXCEPT !.last_save_state = e.buffer, !.modified = FALSE]

can_undo(e) == e.undo_index > 0

can_redo(e) == e.undo_index < Len(e.undo_history) - 1

(* the part undo and redo share: load the snapshot at the pointer, clamp   *)
(* the cursor, recompute the modified flag, scroll                         *)
restore_snapshot_modified(e, index) ==
  LET buf == e.undo_history[index + 1]
      y == Min(e.cursor_y, IF Len(buf) = 0 THEN 0 ELSE Len(buf) - 1)
      line_width == IF y < Len(buf) THEN width(buf[y + 1]) ELSE 0
  IN scroll([e EXCEPT !.undo_index = index,
                      !.buffer = buf,
                      !.cursor_y = y,
                      !.cursor_x = Min(e.cursor_x, line_width),
                      !.modified = TRUE])

restore_snapshot(e, index) ==
  LET buf == e.undo_history[index + 1]
      y == Min(e.cursor_y, IF Len(buf) = 0 THEN 0 ELSE Len(buf) - 1)
      line_width == IF y < Len(buf) THEN width(buf[y + 1]) ELSE 0
  IN scroll([e EXCEPT !.undo_index = index,
                      !.buffer = buf,
                      !.cursor_y = y,
                      !.cursor_x = Min(e.cursor_x, line_width),
                      !.modified = (buf # e.last_save_state)])

undo(e) ==
  IF e.undo_index = 0 THEN e ELSE restore_snapshot(e, e.undo_index - 1)

redo(e) ==
  IF e.undo_index >= Len(e.undo_history) - 1 THEN e
  ELSE restore_snapshot(e, e.undo_index + 1)

(* ------------------------- cursor and typing --------------------------- *)
move_cursor(e, dx, dy) ==
  IF Len(e.buffer) = 0 THEN panic(e)
  ELSE
    LET new_y == Max(0, Min(e.cursor_y + dy, Len(e.buffer) - 1))
        line_width == width(e.buffer[new_y + 1])
        new_x == IF e.virtual_cursor
                 THEN Max(e.cursor_x + dx, 0)
                 ELSE Max(0, Min(e.cursor_x + dx, line_width))
    IN scroll([e EXCEPT !.cursor_y = new_y, !.cursor_x = new_x])

toggle_overwrite(e) == [e EXCEPT !.overwrite_mode = ~e.overwrite_mode]

(* type_char without the padding of the virtual space *)
type_char_no_pad(e, c) ==
  IF e.read_only THEN e
  ELSE
    LET s == save_state(e)
    IN IF s.cursor_y >= Len(s.buffer) THEN panic(s)
       ELSE IF s.virtual_cursor
               /\ s.cursor_x - width(s.buffer[s.cursor_y + 1]) > IsizeMax
       THEN panic(s)
       ELSE
         LET line0 == s.buffer[s.cursor_y + 1]
             line_width == width(line0)
             line == line0
             byte_index == column_to_byte_index(line, s.cursor_x)
             typed == IF s.overwrite_mode
                      THEN IF byte_index < len(line)
                           THEN str_insert(str_remove(line, byte_index),
                                           byte_index, c)
                           ELSE Append(line, c)
                      ELSE str_insert(line, byte_index, c)
             written == [s EXCEPT !.buffer[s.cursor_y + 1] = typed,
                                  !.modified = TRUE]
             new_x == s.cursor_x + CharWidth(c)
         IN IF usize_overflows(new_x) /\ overflow_checks THEN panic(written)
            ELSE scroll([written EXCEPT !.cursor_x = usize_wrap(new_x)])

type_char(e, c) ==
  IF e.read_only THEN e
  ELSE
    LET s == save_state(e)
    IN IF s.cursor_y >= Len(s.buffer) THEN panic(s)
       ELSE IF s.virtual_cursor
               /\ s.cursor_x - width(s.buffer[s.cursor_y + 1]) > IsizeMax
       THEN panic(s)
       ELSE
         LET line0 == s.buffer[s.cursor_y + 1]
             line_width == width(line0)
             line == IF s.virtual_cursor /\ s.cursor_x > line_width
                     THEN line0 \o repeat(" ", s.cursor_x - line_width)
                     ELSE line0
             byte_index == column_to_byte_index(line, s.cursor_x)
             typed == IF s.overwrite_mode
                      THEN IF byte_index < len(line)
                           THEN str_insert(str_remove(line, byte_index),
                                           byte_index, c)
                           ELSE Append(line, c)
                      ELSE str_insert(line, byte_index, c)
             written == [s EXCEPT !.buffer[s.cursor_y + 1] = typed,
                                  !.modified = TRUE]
             new_x == s.cursor_x + CharWidth(c)
         IN IF usize_overflows(new_x) /\ overflow_checks THEN panic(written)
            ELSE scroll([written EXCEPT !.cursor_x = usize_wrap(new_x)])

delete_char(e) ==
  IF e.read_only THEN e
  ELSE
    LET s == save_state(e)
    IN IF s.cursor_y >= Len(s.buffer) THEN panic(s)
       ELSE
         LET line == s.buffer[s.cursor_y + 1]
             line_width == width(line)
             byte_index == column_to_byte_index(line, s.cursor_x)
         IN IF s.virtual_cursor /\ s.cursor_x >= line_width THEN s
            ELSE IF byte_index < len(line)
            THEN [s EXCEPT !.buffer[s.cursor_y + 1] =
                              str_remove(line, byte_index),
                           !.modified = TRUE]
            ELSE IF s.cursor_y < Len(s.buffer) - 1
            THEN [s EXCEPT !.buffer =
                              [vec_remove(s.buffer, s.cursor_y + 1)
                                 EXCEPT ![s.cursor_y + 1] =
                                   line \o s.buffer[s.cursor_y + 2]],
                           !.modified = TRUE]
            ELSE [s EXCEPT !.modified = TRUE]

backspace(e) ==
  IF e.read_only THEN e
  ELSE
    LET s == save_state(e)
    IN IF s.cursor_y >= Len(s.buffer) THEN panic(s)
       ELSE
         LET line == s.buffer[s.cursor_y + 1]
             line_width == width(line)
             byte_index == column_to_byte_index(line, s.cursor_x)
         IN IF s.virtual_cursor /\ s.cursor_x > line_width THEN s
            ELSE IF s.cursor_x > 0
            THEN IF byte_index > 0
                 THEN LET k == CharsBefore(line, byte_index)
                          char_to_remove == line[k]
                          removed == [s EXCEPT
                             !.buffer[s.cursor_y + 1] =
                                SubSeq(line, 1, k - 1)
                                  \o SubSeq(line, k + 1, Len(line))]
                          new_x == s.cursor_x - CharWidth(char_to_remove)
                      IN IF usize_overflows(new_x) /\ overflow_checks
                         THEN panic(removed)
                         ELSE scroll([removed EXCEPT
                                !.cursor_x = usize_wrap(new_x),
                                !.modified = TRUE])
                 ELSE scroll([s EXCEPT !.modified = TRUE])
            ELSE IF s.cursor_y > 0
            THEN LET prev == s.buffer[s.cursor_y]
                 IN scroll([s EXCEPT
                      !.buffer = [vec_remove(s.buffer, s.cursor_y)
                                    EXCEPT ![s.cursor_y] = prev \o line],
                      !.cursor_y = s.cursor_y - 1,
                      !.cursor_x = width(prev),
                      !.modified = TRUE])
            ELSE scroll([s EXCEPT !.modified = TRUE])

(* insert_newline filling the virtual space left of the cursor with blanks *)
insert_newline_pads(e) ==
  IF e.read_only THEN e
  ELSE
    LET s == save_state(e)
    IN IF s.cursor_y >= Len(s.buffer) THEN panic(s)
       ELSE
         LET line == s.buffer[s.cursor_y + 1]
             byte_index == column_to_byte_index(line, s.cursor_x)
             rest == str_from(line, byte_index)
             head == str_truncate(line, byte_index)
                       \o [k \in 1..(s.cursor_x - width(line)) |-> " "]
         IN scroll([s EXCEPT
              !.buffer = vec_insert([s.buffer EXCEPT ![s.cursor_y + 1] = head],
                                    s.cursor_y + 1, rest),
              !.cursor_y = s.cursor_y + 1,
              !.cursor_x = 0,
              !.modified = TRUE])

insert_newline(e) ==
  IF e.read_only THEN e
  ELSE
    LET s == save_state(e)
    IN IF s.cursor_y >= Len(s.buffer) THEN panic(s)
       ELSE
         LET line == s.buffer[s.cursor_y + 1]
             byte_index == column_to_byte_index(line, s.cursor_x)
             rest == str_from(line, byte_index)
             head == str_truncate(line, byte_index)
         IN scroll([s EXCEPT
              !.buffer = vec_insert([s.buffer EXCEPT ![s.cursor_y + 1] = head],
                                    s.cursor_y + 1, rest),
              !.cursor_y = s.cursor_y + 1,
              !.cursor_x = 0,
              !.modified = TRUE])

(* ui.rs save_file with a file name: write, save_state, mark_as_saved *)
save_file(e) == mark_as_saved(save_state(e))

(* ----------------------- paging and selection -------------------------- *)
page_up(e) ==
  IF EditorVisibleHeight > 0
  THEN LET page_height == EditorVisibleHeight - 1
       IN scroll([e EXCEPT !.cursor_y = IF e.cursor_y >= page_height
                                        THEN e.cursor_y - page_height
                                        ELSE 0])
  ELSE e

page_down(e) ==
  IF EditorVisibleHeight > 0
  THEN LET page_height == EditorVisibleHeight - 1
           new_y == e.cursor_y + page_height
       IN IF new_y < Len(e.buffer)
          THEN scroll([e EXCEPT !.cursor_y = new_y])
          ELSE IF usize_overflows(Len(e.buffer) - 1) /\ overflow_checks
          THEN panic(e)
          ELSE scroll([e EXCEPT !.cursor_y = usize_wrap(Len(e.buffer) - 1)])
  ELSE e

select_line(e) ==
  LET max_x == e.scroll_x + EditorVisibleWidth
  IN IF e.selection_mode = "Line" /\ is_some(e.selection_start)
     THEN LET start_y == unwrap(e.selection_start)[1]
              end_y == e.cursor_y
          IN IF start_y <= end_y
             THEN [e EXCEPT !.selection_start = Some(<<start_y, 0>>),
                            !.selection_end = Some(<<end_y, max_x>>)]
             ELSE [e EXCEPT !.selection_start = Some(<<end_y, 0>>),
                            !.selection_end = Some(<<start_y, max_x>>)]
     ELSE [e EXCEPT !.selection_start = Some(<<e.cursor_y, 0>>),
                    !.selection_end = Some(<<e.cursor_y, max_x>>),
                    !.selection_mode = "Line"]

select_block(e) ==
  IF e.selection_mode = "Block" /\ is_some(e.selection_start)
  THEN LET start == unwrap(e.selection_start)
           end == <<e.cursor_y, e.cursor_x>>
       IN [e EXCEPT
            !.selection_start =
               Some(<<Min(start[1], end[1]), Min(start[2], end[2])>>),
            !.selection_end =
               Some(<<Max(start[1], end[1]), Max(start[2], end[2])>>)]
  ELSE [e EXCEPT !.selection_start = Some(<<e.cursor_y, e.cursor_x>>),
                 !.selection_end = Some(<<e.cursor_y, e.cursor_x>>),
                 !.selection_mode = "Block"]

deselect(e) ==
  [e EXCEPT !.selection_start = None, !.selection_end = None,
            !.selection_mode = "None"]

has_selection(e) == is_some(e.selection_start) /\ is_some(e.selection_end)

(* the rectangle of the selection: min_y, max_y, min_x, max_x *)
selection_rect(e) ==
  LET start == unwrap(e.selection_start)
      end == unwrap(e.selection_end)
  IN [min_y |-> Min(start[1], end[1]), max_y |-> Max(start[1], end[1]),
      min_x |-> Min(start[2], end[2]), max_x |-> Max(start[2], end[2])]

(* String::replace_range(a..b, text) at byte offsets *)
str_replace_range(line, a, b, text) ==
  SubSeq(line, 1, CharsBefore(line, a)) \o text
    \o SubSeq(line, CharsBefore(line, b) + 1, Len(line))

(* rows min_y..=max_y that exist in the buffer are replaced by their      *)
(* rewritten lines                                                         *)
map_rows(buf, min_y, max_y, rewritten) ==
  [y \in 1..Len(buf) |->
     IF min_y + 1 <= y /\ y <= max_y + 1 THEN rewritten[y] ELSE buf[y]]

fill_line_rows(e, fill_char) ==
  LET r == selection_rect(e)
      filled_line(line) == repeat(fill_char, r.max_x)
  IN [e EXCEPT !.buffer =
        map_rows(e.buffer, r.min_y, r.max_y,
                 [y \in 1..Len(e.buffer) |-> filled_line(e.buffer[y])])]

(* fill_block_rows that leaves the rectangle's last column out *)
fill_block_rows_short(e, fill_char) ==
  LET r == selection_rect(e)
      end_col == r.max_x
      fill_len == end_col - r.min_x
      filled_line(line) ==
        str_replace_range(line, column_to_byte_index(line, r.min_x),
                          column_to_byte_index(line, end_col),
                          repeat(fill_char, fill_len))
  IN [e EXCEPT !.buffer =
        map_rows(e.buffer, r.min_y, r.max_y,
                 [y \in 1..Len(e.buffer) |-> filled_line(e.buffer[y])])]

fill_block_rows(e, fill_char) ==
  LET r == selection_rect(e)
      end_col == r.max_x + 1
      fill_len == end_col - r.min_x
      filled_line(line) ==
        str_replace_range(line, column_to_byte_index(line, r.min_x),
                          column_to_byte_index(line, end_col),
                          repeat(fill_char, fill_len))
  IN [e EXCEPT !.buffer =
        map_rows(e.buffer, r.min_y, r.max_y,
                 [y \in 1..Len(e.buffer) |-> filled_line(e.buffer[y])])]

fill_selection(e, fill_char) ==
  IF has_selection(e)
  THEN LET s == save_state(e)
           filled == IF s.selection_mode = "Line"
                     THEN fill_line_rows(s, fill_char)
                     ELSE IF s.selection_mode = "Block"
                     THEN fill_block_rows(s, fill_char)
                     ELSE s
       IN deselect([filled EXCEPT !.modified = TRUE])
  ELSE e

(* a row of move_block_right: Some(new line), or None where String::remove *)
(* is handed an offset that is not inside the line                         *)
move_right_row(e, r, line) ==
  IF e.overwrite_mode
  THEN IF e.selection_mode = "Block"
       THEN IF r.max_x + 1 < width(line)
            THEN LET remove_byte == column_to_byte_index(line, r.max_x + 1)
                     cut == str_remove(line, remove_byte)
                 IN IF remove_byte >= len(line) THEN None
                    ELSE Some(str_insert(cut,
                                column_to_byte_index(cut, r.min_x), " "))
            ELSE Some(line)
       ELSE IF line # <<>> THEN Some(Append(Tail(line), " "))
            ELSE Some(line)
  ELSE Some(str_insert(line, column_to_byte_index(line, r.min_x), " "))

move_left_row(e, r, line) ==
  IF e.overwrite_mode
  THEN IF e.selection_mode = "Block"
       THEN IF r.min_x > 0
            THEN LET remove_byte == column_to_byte_index(line, r.min_x - 1)
                     cut == str_remove(line, remove_byte)
                 IN IF remove_byte >= len(line) THEN None
                    ELSE Some(str_insert(cut,
                                column_to_byte_index(cut, r.max_x), " "))
            ELSE Some(line)
       ELSE IF line # <<>>
            THEN Some(<<" ">> \o SubSeq(line, 1, Len(line) - 1))
            ELSE Some(line)
  ELSE IF r.min_x < width(line) /\ r.min_x < Len(line)
          /\ line[r.min_x + 1] = " "
       THEN LET remove_byte == column_to_byte_index(line, r.min_x)
            IN IF remove_byte >= len(line) THEN None
               ELSE Some(str_remove(line, remove_byte))
       ELSE Some(line)

(* the rows of the rectangle that exist, 1-based *)
rect_rows(buf, r) == { y \in 1..Len(buf) : r.min_y + 1 <= y /\ y <= r.max_y + 1 }

move_block_right(e) ==
  IF has_selection(e)
  THEN LET s == save_state(e)
           r == selection_rect(s)
           moved(line) == move_right_row(s, r, line)
       IN IF \E y \in rect_rows(s.buffer, r) : moved(s.buffer[y]) = None
          THEN panic(s)
          ELSE LET shifted(line) == unwrap(moved(line))
                   new_min_x == IF s.overwrite_mode THEN r.min_x + 1
                                ELSE r.min_x
                   new_max_x == IF s.overwrite_mode THEN r.max_x + 1
                                ELSE r.max_x
               IN [s EXCEPT
                    !.buffer =
                      map_rows(s.buffer, r.min_y, r.max_y,
                               [y \in rect_rows(s.buffer, r) |->
                                  shifted(s.buffer[y])]),
                    !.selection_start = Some(<<r.min_y, new_min_x>>),
                    !.selection_end = Some(<<r.max_y, new_max_x>>),
                    !.modified = TRUE]
  ELSE e

move_block_left(e) ==
  IF has_selection(e)
  THEN LET s == save_state(e)
           r == selection_rect(s)
           moved(line) == move_left_row(s, r, line)
       IN IF \E y \in rect_rows(s.buffer, r) : moved(s.buffer[y]) = None
          THEN panic(s)
          ELSE LET shifted(line) == unwrap(moved(line))
                   new_min_x == IF s.overwrite_mode /\ r.min_x > 0
                                THEN r.min_x - 1 ELSE r.min_x
                   new_max_x == IF s.overwrite_mode /\ r.max_x > 0
                                THEN r.max_x - 1 ELSE r.max_x
               IN [s EXCEPT
                    !.buffer =
                      map_rows(s.buffer, r.min_y, r.max_y,
                               [y \in rect_rows(s.buffer, r) |->
                                  shifted(s.buffer[y])]),
                    !.selection_start = Some(<<r.min_y, new_min_x>>),
                    !.selection_end = Some(<<r.max_y, new_max_x>>),
                    !.modified = TRUE]
  ELSE e

(* -------------------------------- sort --------------------------------- *)
(* the characters of the model in the order of their UTF-8 encodings *)
CharOrder ==
  <<" ", "1", "2", "B", "Z", "a", "b", "c", "d", "e", "l", "n", "p",
    "x", "y", "W">>

CharCode(c) == CHOOSE k \in 1..Len(CharOrder) : CharOrder[k] = c

(* Ord for String: -1 Less, 0 Equal, 1 Greater *)
RECURSIVE str_cmp(_, _)
str_cmp(a, b) ==
  IF a = <<>> /\ b = <<>> THEN 0
  ELSE IF a = <<>> THEN -1
  ELSE IF b = <<>> THEN 1
  ELSE IF CharCode(Head(a)) < CharCode(Head(b)) THEN -1
  ELSE IF CharCode(Head(a)) > CharCode(Head(b)) THEN 1
  ELSE str_cmp(Tail(a), Tail(b))

(* &line[a..b] at byte offsets *)
str_slice(line, a, b) ==
  SubSeq(line, CharsBefore(line, a) + 1, CharsBefore(line, b))

(* Some(key), or None where the slice start lies after its end (a panic) *)
extract_sort_key(line, start_col, end_col) ==
  LET line_width == width(line)
      expanded_line == IF start_col > line_width
                       THEN repeat(" ", start_col) \o line
                       ELSE line
      expanded_width == width(expanded_line)
      actual_end == Min(end_col, expanded_width)
      start_byte == column_to_byte_index(expanded_line, start_col)
      end_byte == column_to_byte_index(expanded_line, actual_end)
  IN IF start_col >= expanded_width THEN Some(<<>>)
     ELSE IF start_byte < len(expanded_line)
     THEN IF start_byte > end_byte THEN None
          ELSE Some(str_slice(expanded_line, start_byte, end_byte))
     ELSE Some(<<>>)

extract_block_text(line, start_col, end_col) ==
  LET line_width == width(line)
      expanded_line == IF start_col > line_width
                       THEN repeat(" ", start_col) \o line
                       ELSE line
      expanded_width == width(expanded_line)
      actual_end == Min(end_col, expanded_width)
      start_byte == column_to_byte_index(expanded_line, start_col)
      end_byte == column_to_byte_index(expanded_line, actual_end)
      result == IF start_byte < len(expanded_line)
                THEN str_slice(expanded_line, start_byte, end_byte)
                ELSE <<>>
  IN IF start_col >= expanded_width THEN repeat(" ", end_col - start_col)
     ELSE IF width(result) < end_col - start_col
     THEN result \o repeat(" ", (end_col - start_col) - width(result))
     ELSE result

(* the closure handed to sort_by: the first key that differs decides *)
RECURSIVE compare_keys(_, _, _, _)
compare_keys(keys_a, keys_b, sort_specs, i) ==
  IF i > Len(sort_specs) THEN 0
  ELSE LET cmp == IF sort_specs[i][3]
                  THEN str_cmp(keys_a[i], keys_b[i])
                  ELSE str_cmp(keys_b[i], keys_a[i])
       IN IF cmp # 0 THEN cmp
          ELSE compare_keys(keys_a, keys_b, sort_specs, i + 1)

(* slice::sort_by is stable: an item goes before the first item that is    *)
(* greater than it, taking the items from left to right                    *)
RECURSIVE insert_sorted_unstable(_, _, _)
insert_sorted_unstable(sorted, item, sort_specs) ==
  IF sorted = <<>> THEN <<item>>
  ELSE IF compare_keys(Head(sorted).keys, item.keys, sort_specs, 1) >= 0
  THEN <<item>> \o sorted
  ELSE <<Head(sorted)>>
         \o insert_sorted_unstable(Tail(sorted), item, sort_specs)

RECURSIVE insert_sorted(_, _, _)
insert_sorted(sorted, item, sort_specs) ==
  IF sorted = <<>> THEN <<item>>
  ELSE IF compare_keys(Head(sorted).keys, item.keys, sort_specs, 1) > 0
  THEN <<item>> \o sorted
  ELSE <<Head(sorted)>> \o insert_sorted(Tail(sorted), item, sort_specs)

RECURSIVE sort_by(_, _, _)
sort_by(items, sorted, sort_specs) ==
  IF items = <<>> THEN sorted
  ELSE sort_by(Tail(items), insert_sorted(sorted, Head(items), sort_specs),
               sort_specs)

(* the keys of one line, one Option per sort spec *)
sort_keys_of(line, sort_specs) ==
  [i \in 1..Len(sort_specs) |->
     extract_sort_key(line, sort_specs[i][1], sort_specs[i][2])]

(* the rows with their keys; key_options[k] holds the keys of rows[k] *)
indexed(rows, key_options) ==
  [k \in 1..Len(rows) |->
     [line |-> rows[k],
      keys |-> [i \in 1..Len(key_options[k]) |->
                  IF key_options[k][i] = None THEN <<>>
                  ELSE unwrap(key_options[k][i])]]]

key_panics(rows, key_options) ==
  \E k \in 1..Len(rows) : \E i \in 1..Len(key_options[k]) :
     key_options[k][i] = None

(* a call that returns a bool: the editor after it and the value returned *)
returns(e, ret) == [editor |-> e, ret |-> ret]

sort_all(e, sort_specs) ==
  IF e.buffer = <<>> THEN returns(e, FALSE)
  ELSE
    LET s == save_state(e)
        keys == [k \in 1..Len(s.buffer) |->
                   sort_keys_of(s.buffer[k], sort_specs)]
        indexed_lines == sort_by(indexed(s.buffer, keys), <<>>, sort_specs)
    IN IF key_panics(s.buffer, keys) THEN returns(panic(s), FALSE)
       ELSE returns([s EXCEPT
                      !.buffer = [i \in 1..Len(s.buffer) |->
                                    indexed_lines[i].line],
                      !.modified = TRUE],
                    TRUE)

(* the rows min_y..=max_y that exist, in order *)
selected_rows(buf, r) ==
  SubSeq(buf, r.min_y + 1, Min(r.max_y + 1, Len(buf)))

sort_block_lines(s, r, sort_specs) ==
  LET rows == selected_rows(s.buffer, r)
      keys == [k \in 1..Len(rows) |-> sort_keys_of(rows[k], sort_specs)]
      selected_lines == sort_by(indexed(rows, keys), <<>>, sort_specs)
  IN IF key_panics(rows, keys) THEN returns(panic(s), FALSE)
     ELSE returns([s EXCEPT
                    !.buffer = [y \in 1..Len(s.buffer) |->
                                  IF y \in rect_rows(s.buffer, r)
                                  THEN selected_lines[y - r.min_y].line
                                  ELSE s.buffer[y]],
                    !.modified = TRUE],
                  TRUE)

(* sort_block_columns writing each sorted text from the start of its row *)
sort_block_from_row_start(s, r, sort_specs) ==
  LET end_col == r.max_x + 1
      rows == selected_rows(s.buffer, r)
      texts == [k \in 1..Len(rows) |->
                  extract_block_text(rows[k], r.min_x, end_col)]
      adjusted(col) == IF col >= r.min_x THEN col - r.min_x ELSE 0
      keys ==
        [k \in 1..Len(texts) |->
           [i \in 1..Len(sort_specs) |->
              extract_sort_key(texts[k], adjusted(sort_specs[i][1]),
                               adjusted(sort_specs[i][2]))]]
      block_content == sort_by(indexed(texts, keys), <<>>, sort_specs)
  IN IF key_panics(texts, keys) THEN returns(panic(s), FALSE)
     ELSE returns([s EXCEPT
                    !.buffer = [y \in 1..Len(s.buffer) |->
                      IF y \in rect_rows(s.buffer, r)
                      THEN str_replace_range(
                             s.buffer[y],
                             0,
                             column_to_byte_index(s.buffer[y], end_col),
                             block_content[y - r.min_y].line)
                      ELSE s.buffer[y]],
                    !.modified = TRUE],
                  TRUE)

sort_block_columns(s, r, sort_specs) ==
  LET end_col == r.max_x + 1
      rows == selected_rows(s.buffer, r)
      texts == [k \in 1..Len(rows) |->
                  extract_block_text(rows[k], r.min_x, end_col)]
      adjusted(col) == IF col >= r.min_x THEN col - r.min_x ELSE 0
      keys ==
        [k \in 1..Len(texts) |->
           [i \in 1..Len(sort_specs) |->
              extract_sort_key(texts[k], adjusted(sort_specs[i][1]),
                               adjusted(sort_specs[i][2]))]]
      block_content == sort_by(indexed(texts, keys), <<>>, sort_specs)
  IN IF key_panics(texts, keys) THEN returns(panic(s), FALSE)
     ELSE returns([s EXCEPT
                    !.buffer = [y \in 1..Len(s.buffer) |->
                      IF y \in rect_rows(s.buffer, r)
                      THEN str_replace_range(
                             s.buffer[y],
                             column_to_byte_index(s.buffer[y], r.min_x),
                             column_to_byte_index(s.buffer[y], end_col),
                             block_content[y - r.min_y].line)
                      ELSE s.buffer[y]],
                    !.modified = TRUE],
                  TRUE)

sort_block(e, sort_specs) ==
  IF has_selection(e)
  THEN LET s == save_state(e)
           r == selection_rect(s)
       IN IF s.selection_mode = "Line"
          THEN sort_block_lines(s, r, sort_specs)
          ELSE IF s.selection_mode = "Block"
          THEN sort_block_columns(s, r, sort_specs)
          ELSE returns(s, FALSE)
  ELSE returns(e, FALSE)

(* --------------------------- search / replace -------------------------- *)
to_lowercase_char(c) == IF c = "B" THEN "b" ELSE IF c = "Z" THEN "z" ELSE c

to_lowercase(line) == [k \in 1..Len(line) |-> to_lowercase_char(line[k])]

is_char_boundary(line, b) ==
  b <= len(line) /\ len(SubSeq(line, 1, CharsBefore(line, b))) = b

(* str::find: the byte offset of the first occurrence, if any *)
str_find(hay, needle) ==
  LET n == Len(needle)
      hits == { k \in 1..(Len(hay) - n + 1) : SubSeq(hay, k, k + n - 1) = needle }
      first == CHOOSE k \in hits : \A j \in hits : k <= j
  IN IF hits = {} THEN None ELSE Some(len(SubSeq(hay, 1, first - 1)))

case_folded(e, text) ==
  IF e.search_case_sensitive THEN text ELSE to_lowercase(text)

(* the while loop of find_matches_in_line: Some(matches), or None where    *)
(* &search_line[start..] cuts a character in two (a panic)                 *)
RECURSIVE matches_from(_, _, _, _, _)
matches_from(search_line, folded_target, line_idx, start, found) ==
  IF ~is_char_boundary(search_line, start) THEN None
  ELSE LET pos == str_find(str_from(search_line, start), folded_target)
       IN IF pos = None THEN Some(found)
          ELSE LET abs_start == start + unwrap(pos)
                   abs_end == abs_start + len(folded_target)
               IN matches_from(search_line, folded_target, line_idx,
                               abs_start + 1,
                               Append(found, <<line_idx, abs_start, abs_end>>))

(* find_matches_in_line that stops at the first match of the line *)
find_matches_in_line_first_only(e, line, line_idx) ==
  LET folded_target == case_folded(e, unwrap(e.search_target))
      pos == str_find(case_folded(e, line), folded_target)
  IN IF pos = None THEN [e EXCEPT !.matches_in_last_line = 0]
     ELSE [e EXCEPT !.search_matches =
                      Append(e.search_matches,
                             <<line_idx, unwrap(pos),
                               unwrap(pos) + len(folded_target)>>),
                    !.matches_in_last_line = 1]

find_matches_in_line(e, line, line_idx) ==
  LET search_line == case_folded(e, line)
      folded_target == case_folded(e, unwrap(e.search_target))
      found == matches_from(search_line, folded_target, line_idx, 0, <<>>)
  IN IF found = None THEN panic([e EXCEPT !.matches_in_last_line = 0])
     ELSE [e EXCEPT !.search_matches = e.search_matches \o unwrap(found),
                    !.matches_in_last_line = Len(unwrap(found))]

find_first_match_in_line(e, line) ==
  LET search_line == case_folded(e, line)
      folded_target == case_folded(e, unwrap(e.search_target))
      pos == str_find(search_line, folded_target)
  IN IF pos = None THEN None
     ELSE Some(<<unwrap(pos), unwrap(pos) + len(folded_target)>>)

(* scope All: every line of the buffer as it was when the loop began *)
RECURSIVE matches_all(_, _, _)
matches_all(e, rest, line_idx) ==
  IF rest = <<>> \/ e.panicked THEN e
  ELSE matches_all(find_matches_in_line(e, Head(rest), line_idx),
                   Tail(rest), line_idx + 1)

(* scope Line: the first match of a line; find stops at the first line     *)
(* that has one, replace and replace_next go on                            *)
RECURSIVE matches_line(_, _, _)
matches_line(e, line_idx, first_line_only) ==
  IF line_idx >= Len(e.buffer) THEN e
  ELSE LET m == find_first_match_in_line(e, e.buffer[line_idx + 1])
       IN IF m = None THEN matches_line(e, line_idx + 1, first_line_only)
          ELSE LET pushed ==
                     [e EXCEPT !.search_matches =
                        Append(e.search_matches,
                               <<line_idx, unwrap(m)[1], unwrap(m)[2]>>)]
               IN IF first_line_only THEN pushed
                  ELSE matches_line(pushed, line_idx + 1, first_line_only)

(* scope Block: the matches of the rectangle's text, shifted by min_x *)
RECURSIVE matches_block(_, _, _)
matches_block(e, r, line_idx) ==
  IF line_idx > r.max_y \/ line_idx >= Len(e.buffer) \/ e.panicked THEN e
  ELSE LET block_text == extract_block_text(e.buffer[line_idx + 1],
                                            r.min_x, r.max_x + 1)
           f == find_matches_in_line(e, block_text, line_idx)
           kept == Len(f.search_matches) - f.matches_in_last_line
           adjusted ==
             [k \in 1..Len(f.search_matches) |->
                IF k > kept
                THEN <<f.search_matches[k][1],
                       f.search_matches[k][2] + r.min_x,
                       f.search_matches[k][3] + r.min_x>>
                ELSE f.search_matches[k]]
       IN matches_block([f EXCEPT !.search_matches = adjusted],
                        r, line_idx + 1)

move_to_match(e, match_index) ==
  IF match_index < Len(e.search_matches)
  THEN LET m == e.search_matches[match_index + 1]
       IN scroll([e EXCEPT !.cursor_y = m[1], !.cursor_x = m[2]])
  ELSE e

(* the part find and replace share: the search is recorded, the match list *)
(* cleared and rebuilt for the scope                                       *)
start_search(e, target, scope, case_sensitive) ==
  [e EXCEPT !.search_target = Some(target),
            !.search_scope = scope,
            !.search_case_sensitive = case_sensitive,
            !.search_matches = <<>>,
            !.current_match_index = 0]

scope_matches(e, scope, first_line_only) ==
  IF scope = "All" THEN matches_all(e, e.buffer, 0)
  ELSE IF scope = "Line" THEN matches_line(e, 0, first_line_only)
  ELSE IF has_selection(e)
  THEN matches_block(e, selection_rect(e), selection_rect(e).min_y)
  ELSE e

find(e, target, scope, case_sensitive) ==
  IF target = <<>> THEN returns(e, FALSE)
  ELSE
    LET s == start_search(e, target, scope, case_sensitive)
        m == scope_matches(s, scope, TRUE)
    IN IF scope = "Block" /\ ~has_selection(s) THEN returns(s, FALSE)
       ELSE IF m.panicked THEN returns(m, FALSE)
       ELSE IF m.search_matches # <<>>
       THEN returns(move_to_match(m, 0), TRUE)
       ELSE returns(m, FALSE)

find_next_no_wrap(e) ==
  IF e.search_matches = <<>> THEN returns(e, FALSE)
  ELSE LET next == e.current_match_index + 1
       IN returns(move_to_match([e EXCEPT !.current_match_index = next],
                                next),
                  TRUE)

find_next(e) ==
  IF e.search_matches = <<>> THEN returns(e, FALSE)
  ELSE LET next == (e.current_match_index + 1) % Len(e.search_matches)
       IN returns(move_to_match([e EXCEPT !.current_match_index = next],
                                next),
                  TRUE)

(* the while loop of replace_all_instances on one line: Some(line), or     *)
(* None where &search_line[offset..] is no valid slice (a panic) or where  *)
(* the loop finds the same match again and again and never returns; fuel   *)
(* is more than the steps of any run that ends                             *)
RECURSIVE replace_in_line(_, _, _, _, _, _)
replace_in_line(result_line, find_text, new_text, case_sensitive, offset, fuel) ==
  LET fold(text) == IF case_sensitive THEN text ELSE to_lowercase(text)
      search_line == fold(result_line)
      pos == str_find(str_from(search_line, offset), fold(find_text))
      abs_pos == offset + unwrap(pos)
      end_pos == abs_pos + len(find_text)
      start_byte == column_to_byte_index(result_line, abs_pos)
      end_byte == column_to_byte_index(result_line, end_pos)
  IN IF ~is_char_boundary(search_line, offset) THEN None
     ELSE IF pos = None THEN Some(result_line)
     ELSE IF fuel = 0 THEN None
     ELSE replace_in_line(
            str_replace_range(result_line, start_byte, end_byte, new_text),
            find_text, new_text, case_sensitive,
            abs_pos + len(new_text), fuel - 1)

replace_all_instances(e, find_text, new_text, case_sensitive) ==
  LET replaced(line) ==
        replace_in_line(line, find_text, new_text, case_sensitive,
                        0, 2 * Len(line) + 2)
  IN IF \E y \in 1..Len(e.buffer) : replaced(e.buffer[y]) = None
     THEN panic(e)
     ELSE [e EXCEPT !.buffer = [y \in 1..Len(e.buffer) |->
                                  unwrap(replaced(e.buffer[y]))],
                    !.modified = TRUE]

perform_replace(e, line_idx, start_col, end_col, new_text) ==
  IF line_idx >= Len(e.buffer) THEN panic(e)
  ELSE
    LET line == e.buffer[line_idx + 1]
        start_byte == column_to_byte_index(line, start_col)
        end_byte == column_to_byte_index(line, end_col)
        original_width == end_col - start_col
        replace_width == width(new_text)
        direct == str_replace_range(line, start_byte, end_byte, new_text)
        current_end_byte ==
          column_to_byte_index(direct, start_col + replace_width)
        remove_end_byte ==
          column_to_byte_index(direct, start_col + original_width)
        pulled == IF remove_end_byte > current_end_byte
                  THEN str_replace_range(direct, current_end_byte,
                                         remove_end_byte, <<>>)
                  ELSE direct
    IN [e EXCEPT !.buffer[line_idx + 1] =
                    IF replace_width < original_width THEN pulled
                    ELSE direct,
                 !.modified = TRUE]

replace(e, find_text, new_text, scope, all, case_sensitive) ==
  IF find_text = <<>> THEN returns(e, FALSE)
  ELSE
    LET s == start_search(save_state(e), find_text, scope, case_sensitive)
        m == scope_matches(s, scope, FALSE)
    IN IF scope = "Block" /\ ~has_selection(s) THEN returns(s, FALSE)
       ELSE IF m.panicked THEN returns(m, FALSE)
       ELSE IF m.search_matches = <<>> THEN returns(m, FALSE)
       ELSE IF all
       THEN returns(replace_all_instances(m, find_text, new_text,
                                          case_sensitive),
                    TRUE)
       ELSE returns(move_to_match([m EXCEPT !.replace_text = Some(new_text),
                                            !.replace_all = FALSE],
                                  0),
                    TRUE)

replace_next(e) ==
  IF e.search_matches = <<>> \/ e.replace_text = None THEN returns(e, FALSE)
  ELSE IF e.current_match_index >= Len(e.search_matches)
  THEN returns(panic(e), FALSE)
  ELSE
    LET m == e.search_matches[e.current_match_index + 1]
        replaced == perform_replace(e, m[1], m[2], m[3],
                                    unwrap(e.replace_text))
        cleared == [replaced EXCEPT !.search_matches = <<>>,
                                    !.current_match_index = 0]
        found == scope_matches(cleared, cleared.search_scope, FALSE)
    IN IF replaced.panicked THEN returns(replaced, FALSE)
       ELSE IF found.panicked THEN returns(found, FALSE)
       ELSE IF found.search_matches # <<>>
       THEN returns(move_to_match(found, found.current_match_index), TRUE)
       ELSE returns(found, TRUE)

(* ----------------------------- diff / merge ---------------------------- *)
Hunk(old_start, old_lines, new_start, new_lines, hunk_lines) ==
  [old_start |-> old_start, old_lines |-> old_lines,
   new_start |-> new_start, new_lines |-> new_lines,
   lines |-> hunk_lines, accepted |-> FALSE]

Added(content) == [tag |-> "Added", content |-> content]
removed_as_added(content) == [tag |-> "Added", content |-> content]

Removed(content) == [tag |-> "Removed", content |-> content]

(* a hunk starts at the first differing line after a match *)
hunk_start_stale(in_hunk, hunk_start, index) == hunk_start

hunk_start_of(in_hunk, hunk_start, index) ==
  IF in_hunk THEN hunk_start ELSE index

(* one iteration of the loop of compute_diff; d holds its local variables *)
compute_diff_step(original, modified_buffer, d) ==
  LET i == d.i
      j == d.j
  IN
  IF i < Len(original) /\ j < Len(modified_buffer)
     /\ original[i + 1] = modified_buffer[j + 1]
  THEN [d EXCEPT
          !.hunks = IF d.in_hunk
                    THEN Append(d.hunks,
                           Hunk(d.hunk_start_original,
                                i - d.hunk_start_original,
                                d.hunk_start_modified,
                                j - d.hunk_start_modified,
                                d.current_hunk_lines))
                    ELSE d.hunks,
          !.current_hunk_lines = IF d.in_hunk THEN <<>>
                                 ELSE d.current_hunk_lines,
          !.in_hunk = FALSE,
          !.i = i + 1,
          !.j = j + 1]
  ELSE
    LET hso == hunk_start_of(d.in_hunk, d.hunk_start_original, i)
        hsm == hunk_start_of(d.in_hunk, d.hunk_start_modified, j)
        remove == i < Len(original)
                  /\ (j >= Len(modified_buffer)
                      \/ original[i + 1] # modified_buffer[j + 1])
        i2 == IF remove THEN i + 1 ELSE i
        lines1 == IF remove
                  THEN Append(d.current_hunk_lines, Removed(original[i + 1]))
                  ELSE d.current_hunk_lines
        add == j < Len(modified_buffer)
               /\ (i2 >= Len(original)
                   \/ original[i2 + 1] # modified_buffer[j + 1])
        j2 == IF add THEN j + 1 ELSE j
        lines2 == IF add
                  THEN Append(lines1, Added(modified_buffer[j + 1]))
                  ELSE lines1
    IN [d EXCEPT !.hunk_start_original = hso,
                 !.hunk_start_modified = hsm,
                 !.in_hunk = TRUE,
                 !.current_hunk_lines = lines2,
                 !.i = i2,
                 !.j = j2]

(* the loop of compute_diff and the final hunk *)
RECURSIVE compute_diff_loop(_, _, _)
compute_diff_loop(original, modified_buffer, d) ==
  IF ~(d.i < Len(original) \/ d.j < Len(modified_buffer))
  THEN IF d.in_hunk
       THEN Append(d.hunks,
                   Hunk(d.hunk_start_original, d.i - d.hunk_start_original,
                        d.hunk_start_modified, d.j - d.hunk_start_modified,
                        d.current_hunk_lines))
       ELSE d.hunks
  ELSE compute_diff_loop(original, modified_buffer,
                         compute_diff_step(original, modified_buffer, d))

compute_diff(original, modified_buffer) ==
  compute_diff_loop(original, modified_buffer,
    [hunks |-> <<>>, i |-> 0, j |-> 0,
     hunk_start_original |-> 0, hunk_start_modified |-> 0,
     current_hunk_lines |-> <<>>, in_hunk |-> FALSE])

(* remove old_lines lines at start_line, while there are any *)
RECURSIVE remove_old_lines(_, _, _)
remove_old_lines(buf, start_line, n) ==
  IF n = 0 THEN buf
  ELSE remove_old_lines(IF start_line < Len(buf)
                        THEN vec_remove(buf, start_line) ELSE buf,
                        start_line, n - 1)

(* insert the hunk's Added/Context records; i is the record's index *)
RECURSIVE insert_new_lines(_, _, _, _)
insert_new_lines(buf, hunk_lines, start_line, i) ==
  IF i >= Len(hunk_lines) THEN buf
  ELSE LET line == hunk_lines[i + 1]
       IN insert_new_lines(
            IF line.tag \in {"Added", "Context"}
            THEN vec_insert(buf, Min(start_line + i, Len(buf)), line.content)
            ELSE buf,
            hunk_lines, start_line, i + 1)

apply_hunk_to_buffer(buf, hunk, start_line) ==
  insert_new_lines(remove_old_lines(buf, start_line, hunk.old_lines),
                   hunk.lines, start_line, 0)

(* the fold over the accepted hunks shared by apply_diff_changes and       *)
(* update_buffer_with_accepted_hunks; k is the next hunk's position        *)
RECURSIVE apply_accepted(_, _, _, _)
apply_accepted(result_buffer, hunks, line_offset, k) ==
  IF k > Len(hunks) THEN result_buffer
  ELSE IF hunks[k].accepted
  THEN apply_accepted(
         apply_hunk_to_buffer(result_buffer, hunks[k],
                              hunks[k].old_start + line_offset),
         hunks,
         line_offset + hunks[k].new_lines - hunks[k].old_lines,
         k + 1)
  ELSE apply_accepted(result_buffer, hunks, line_offset, k + 1)

update_buffer_with_accepted_hunks(e) ==
  IF e.diff_mode.active
  THEN [e EXCEPT !.buffer = apply_accepted(e.diff_mode.original_buffer,
                                           e.diff_mode.hunks, 0, 1)]
  ELSE e

show_hunk(e, hunk_index) ==
  IF e.diff_mode.active /\ hunk_index < Len(e.diff_mode.hunks)
  THEN update_buffer_with_accepted_hunks(
         [e EXCEPT !.diff_mode.current_hunk = hunk_index])
  ELSE e

start_diff_mode(e, modified_buffer) ==
  LET hunks == compute_diff(e.buffer, modified_buffer)
      started == [e EXCEPT !.diff_mode =
                    [active |-> TRUE, original_buffer |-> e.buffer,
                     modified_buffer |-> modified_buffer, hunks |-> hunks,
                     current_hunk |-> 0, accept_all |-> FALSE]]
  IN IF hunks # <<>> THEN show_hunk(started, 0) ELSE started

(* what next_hunk and prev_hunk return *)
next_hunk_ret(e) == e.diff_mode.current_hunk + 1 < Len(e.diff_mode.hunks)

prev_hunk_ret(e) == e.diff_mode.current_hunk > 0

next_hunk_wraps(e) ==
  IF e.diff_mode.hunks # <<>>
  THEN show_hunk(e, (e.diff_mode.current_hunk + 1) % Len(e.diff_mode.hunks))
  ELSE e

next_hunk(e) ==
  IF e.diff_mode.current_hunk + 1 < Len(e.diff_mode.hunks)
  THEN show_hunk(e, e.diff_mode.current_hunk + 1)
  ELSE e

prev_hunk(e) ==
  IF e.diff_mode.current_hunk > 0
  THEN show_hunk(e, e.diff_mode.current_hunk - 1)
  ELSE e

set_current_accepted(e, flag) ==
  IF e.diff_mode.active
     /\ e.diff_mode.current_hunk < Len(e.diff_mode.hunks)
  THEN update_buffer_with_accepted_hunks(
         [e EXCEPT !.diff_mode.hunks[e.diff_mode.current_hunk + 1].accepted =
                      flag])
  ELSE e

accept_current_hunk(e) == set_current_accepted(e, TRUE)

reject_current_hunk_no_rebuild(e) ==
  IF e.diff_mode.active
     /\ e.diff_mode.current_hunk < Len(e.diff_mode.hunks)
  THEN [e EXCEPT !.diff_mode.hunks[e.diff_mode.current_hunk + 1].accepted =
                    FALSE]
  ELSE e

reject_current_hunk(e) == set_current_accepted(e, FALSE)

set_all_accepted(e, flag) ==
  IF e.diff_mode.active
  THEN update_buffer_with_accepted_hunks(
         [e EXCEPT !.diff_mode.hunks =
                      [k \in 1..Len(e.diff_mode.hunks) |->
                         [e.diff_mode.hunks[k] EXCEPT !.accepted = flag]],
                   !.diff_mode.accept_all = flag])
  ELSE e

accept_all_hunks(e) == set_all_accepted(e, TRUE)

reject_all_hunks(e) == set_all_accepted(e, FALSE)

all_hunks_accepted(e) ==
  e.diff_mode.active
  /\ \A k \in 1..Len(e.diff_mode.hunks) : e.diff_mode.hunks[k].accepted

apply_diff_changes(e) ==
  IF e.diff_mode.active
  THEN [e EXCEPT !.buffer = apply_accepted(e.diff_mode.original_buffer,
                                           e.diff_mode.hunks, 0, 1),
                 !.modified = TRUE,
                 !.diff_mode = Inactive]
  ELSE e

(* cancel_diff_mode that ends the session and keeps the displayed buffer *)
cancel_diff_mode_keep_buffer(e) ==
  IF e.diff_mode.active
  THEN [e EXCEPT !.diff_mode = Inactive]
  ELSE e

cancel_diff_mode(e) ==
  IF e.diff_mode.active
  THEN [e EXCEPT !.buffer = e.diff_mode.original_buffer,
                 !.diff_mode = Inactive]
  ELSE e

(* ------------------------------ actions -------------------------------- *)
(* last_op records the operation just performed, discarded the number of   *)
(* history entries its save_state dropped                                  *)
Apply(e, op) ==
  /\ buffer' = e.buffer
  /\ cursor_x' = e.cursor_x
  /\ cursor_y' = e.cursor_y
  /\ scroll_x' = e.scroll_x
  /\ scroll_y' = e.scroll_y
  /\ overwrite_mode' = e.overwrite_mode
  /\ modified' = e.modified
  /\ read_only' = e.read_only
  /\ virtual_cursor' = e.virtual_cursor
  /\ undo_history' = e.undo_history
  /\ undo_index' = e.undo_index
  /\ last_save_state' = e.last_save_state
  /\ diff_mode' = e.diff_mode
  /\ selection_start' = e.selection_start
  /\ selection_end' = e.selection_end
  /\ selection_mode' = e.selection_mode
  /\ search_target' = e.search_target
  /\ search_scope' = e.search_scope
  /\ search_case_sensitive' = e.search_case_sensitive
  /\ search_matches' = e.search_matches
  /\ current_match_index' = e.current_match_index
  /\ matches_in_last_line' = e.matches_in_last_line
  /\ replace_text' = e.replace_text
  /\ replace_all' = e.replace_all
  /\ overflow_checks' = overflow_checks
  /\ panicked' = e.panicked
  /\ last_op' = op
  /\ discarded' = IF e.undo_index = undo_index + 1
                      /\ Len(e.undo_history) = undo_index + 2
                   THEN Len(undo_history) - (undo_index + 1)
                   ELSE 0

Load(e) ==
  /\ buffer = e.buffer
  /\ cursor_x = e.cursor_x
  /\ cursor_y = e.cursor_y
  /\ scroll_x = e.scroll_x
  /\ scroll_y = e.scroll_y
  /\ overwrite_mode = e.overwrite_mode
  /\ modified = e.modified
  /\ read_only = e.read_only
  /\ virtual_cursor = e.virtual_cursor
  /\ undo_history = e.undo_history
  /\ undo_index = e.undo_index
  /\ last_save_state = e.last_save_state
  /\ diff_mode = e.diff_mode
  /\ selection_start = e.selection_start
  /\ selection_end = e.selection_end
  /\ selection_mode = e.selection_mode
  /\ search_target = e.search_target
  /\ search_scope = e.search_scope
  /\ search_case_sensitive = e.search_case_sensitive
  /\ search_matches = e.search_matches
  /\ current_match_index = e.current_match_index
  /\ matches_in_last_line = e.matches_in_last_line
  /\ replace_text = e.replace_text
  /\ replace_all = e.replace_all
  /\ overflow_checks \in BOOLEAN
  /\ panicked = e.panicked
  /\ last_op = "new"
  /\ discarded = 0

(* the host loop hands keys to the editor only outside a diff review *)
Editing == ~panicked /\ ~diff_mode.active

Reviewing == ~panicked /\ diff_mode.active

HistoryRoom == undo_index + 2 <= MaxHistory

(* the edits explored grow no line beyond MaxLineLen characters and the    *)
(* buffer not beyond MaxLines lines                                        *)
LinesFit(e) == \A y \in 1..Len(e.buffer) : Len(e.buffer[y]) <= MaxLineLen

SnapshotOps ==
  {"type_char", "delete_char", "backspace", "insert_newline", "save_file"}

EditOps == {"type_char", "delete_char", "backspace", "insert_newline"}

MoveCursor ==
  /\ Editing
  /\ \E d \in {<<0, -1>>, <<0, 1>>, <<-1, 0>>, <<1, 0>>} :
       /\ d[1] = 1 => cursor_x < MaxCol
       /\ (d[1] = -1 /\ virtual_cursor) => cursor_x <= MaxCol + MaxLineLen + 1
       /\ UNCHANGED <<ai_response_receiver, sessions, host>>
       /\ Apply(move_cursor(self, d[1], d[2]), "move_cursor")

ToggleOverwrite ==
  /\ Editing
  /\ UNCHANGED <<ai_response_receiver, sessions, host>>
  /\ Apply(toggle_overwrite(self), "toggle_overwrite")

TypeChar ==
  /\ Editing
  /\ HistoryRoom
  /\ UNCHANGED <<ai_response_receiver, sessions, host>>
  /\ \E c \in TypedChars :
       /\ LinesFit(type_char(self, c))
       /\ Apply(type_char(self, c), "type_char")

DeleteChar ==
  /\ Editing
  /\ HistoryRoom
  /\ UNCHANGED <<ai_response_receiver, sessions, host>>
  /\ Apply(delete_char(self), "delete_char")

Backspace ==
  /\ Editing
  /\ HistoryRoom
  /\ UNCHANGED <<ai_response_receiver, sessions, host>>
  /\ Apply(backspace(self), "backspace")

InsertNewline ==
  /\ Editing
  /\ HistoryRoom
  /\ UNCHANGED <<ai_response_receiver, sessions, host>>
  /\ Len(buffer) < MaxLines
  /\ Apply(insert_newline(self), "insert_newline")

SaveFile ==
  /\ Editing
  /\ HistoryRoom
  /\ UNCHANGED <<ai_response_receiver, sessions, host>>
  /\ Apply(save_file(self), "save_file")

Undo ==
  /\ Editing
  /\ UNCHANGED <<ai_response_receiver, sessions, host>>
  /\ Apply(undo(self), "undo")

Redo ==
  /\ Editing
  /\ UNCHANGED <<ai_response_receiver, sessions, host>>
  /\ Apply(redo(self), "redo")

(* ui.rs "prompt" command: a worker is spawned and its receiver stored   *)
(* over whatever receiver was stored before; a receiver that is replaced *)
(* is dropped, and the result its worker sends is discarded              *)
Prompt(max_requests) ==
  /\ Editing
  /\ sessions < max_requests
  /\ sessions' = sessions + 1
  /\ ai_response_receiver' = "Some"
  /\ ai_status' = "InProgress"
  /\ workers' = workers + 1
  /\ dropped_results' = IF ai_response_receiver = "Some"
                        THEN dropped_results + 1
                        ELSE dropped_results
  /\ Apply(self, "prompt")

PromptCommand == Prompt(MaxSessions)

PromptRequest == Prompt(MaxRequests)

(* ui.rs "q" command while read-only: back to the document *)
QuitCommand ==
  /\ Editing
  /\ read_only
  /\ UNCHANGED <<ai_response_receiver, sessions, host>>
  /\ Apply([self EXCEPT !.cursor_y = 0, !.cursor_x = 0,
                        !.scroll_y = 0, !.scroll_x = 0,
                        !.modified = FALSE, !.read_only = FALSE],
           "quit")

(* ui.rs proposal poll, a result is ready *)
PollOk ==
  /\ ~panicked
  /\ ai_response_receiver = "Some"
  /\ ai_response_receiver' = "None"
  /\ ai_status' = "Success"
  /\ workers' = workers - 1
  /\ UNCHANGED <<sessions, dropped_results>>
  /\ \E response \in Proposals :
       Apply([start_diff_mode(self, lines(response))
                EXCEPT !.read_only = TRUE],
             "poll_ok")

PollErrLocksBuffer ==
  /\ ~panicked
  /\ ai_response_receiver = "Some"
  /\ ai_response_receiver' = "None"
  /\ ai_status' = "Failure"
  /\ workers' = workers - 1
  /\ UNCHANGED <<sessions, dropped_results>>
  /\ Apply([self EXCEPT !.read_only = TRUE], "poll_err")

PollErr ==
  /\ ~panicked
  /\ ai_response_receiver = "Some"
  /\ ai_response_receiver' = "None"
  /\ ai_status' = "Failure"
  /\ workers' = workers - 1
  /\ UNCHANGED <<sessions, dropped_results>>
  /\ Apply(self, "poll_err")

(* a worker whose receiver was replaced finishes: its send fails and the *)
(* failure is ignored                                                    *)
WorkerLost ==
  /\ workers > (IF ai_response_receiver = "Some" THEN 1 ELSE 0)
  /\ workers' = workers - 1
  /\ UNCHANGED <<ai_response_receiver, sessions, ai_status,
                 dropped_results, editor_state>>

(* the worker of the outstanding request ends without sending: its thread *)
(* panics (ai.rs send_prompt_to_gemini is todo!()) and drops the sender;   *)
(* the slot then holds a receiver whose try_recv is Err(Disconnected),     *)
(* which the poll's `if let Ok(result)` skips like an empty channel        *)
WorkerEnds ==
  /\ ai_response_receiver = "Some"
  /\ ai_response_receiver' = "Disconnected"
  /\ workers' = workers - 1
  /\ UNCHANGED <<sessions, ai_status, dropped_results, editor_state>>

(* ui.rs main loop: a Success or Failure status older than five seconds *)
(* is reset                                                             *)
StatusExpires ==
  /\ ai_status \in {"Success", "Failure"}
  /\ ai_status' = "Idle"
  /\ UNCHANGED <<ai_response_receiver, sessions, workers,
                 dropped_results, editor_state>>

AcceptCurrentHunk ==
  /\ Reviewing
  /\ UNCHANGED <<ai_response_receiver, sessions, host>>
  /\ Apply(accept_current_hunk(self), "accept_current_hunk")

RejectCurrentHunk ==
  /\ Reviewing
  /\ UNCHANGED <<ai_response_receiver, sessions, host>>
  /\ Apply(reject_current_hunk(self), "reject_current_hunk")

AcceptAllHunks ==
  /\ Reviewing
  /\ UNCHANGED <<ai_response_receiver, sessions, host>>
  /\ Apply(accept_all_hunks(self), "accept_all_hunks")

RejectAllHunks ==
  /\ Reviewing
  /\ UNCHANGED <<ai_response_receiver, sessions, host>>
  /\ Apply(reject_all_hunks(self), "reject_all_hunks")

NextHunk ==
  /\ Reviewing
  /\ UNCHANGED <<ai_response_receiver, sessions, host>>
  /\ Apply(next_hunk(self), "next_hunk")

PrevHunk ==
  /\ Reviewing
  /\ UNCHANGED <<ai_response_receiver, sessions, host>>
  /\ Apply(prev_hunk(self), "prev_hunk")

ApplyDiffChanges ==
  /\ Reviewing
  /\ UNCHANGED <<ai_response_receiver, sessions, host>>
  /\ Apply(apply_diff_changes(self), "apply_diff_changes")

CancelDiffMode ==
  /\ Reviewing
  /\ UNCHANGED <<ai_response_receiver, sessions, host>>
  /\ Apply(cancel_diff_mode(self), "cancel_diff_mode")

Init ==
  /\ \E file_text \in InitTexts, vcur \in BOOLEAN :
       Load(new(read_contents(file_text), vcur))
  /\ ai_response_receiver = "None"
  /\ sessions = 0
  /\ HostIdle

Next ==
  \/ MoveCursor
  \/ ToggleOverwrite
  \/ TypeChar
  \/ DeleteChar
  \/ Backspace
  \/ InsertNewline
  \/ SaveFile
  \/ Undo
  \/ Redo

Spec == Init /\ [][Next]_vars

(* review sessions: proposals arrive for buffers that were typed into *)
InitDiff ==
  /\ \E file_text \in DiffInitTexts, vcur \in BOOLEAN :
       Load(new(read_contents(file_text), vcur))
  /\ ai_response_receiver = "None"
  /\ sessions = 0
  /\ HostIdle

NextDiff ==
  \/ TypeChar
  \/ Undo
  \/ Redo
  \/ PromptCommand
  \/ QuitCommand
  \/ PollOk
  \/ PollErr
  \/ AcceptCurrentHunk
  \/ RejectCurrentHunk
  \/ AcceptAllHunks
  \/ RejectAllHunks
  \/ NextHunk
  \/ PrevHunk
  \/ ApplyDiffChanges
  \/ CancelDiffMode

SpecDiff == InitDiff /\ [][NextDiff]_vars

(* comparisons: proposals arrive for typed-into buffers and are compared *)
NextCompare ==
  \/ TypeChar
  \/ PromptCommand
  \/ PollOk
  \/ CancelDiffMode
  \/ QuitCommand

SpecCompare == InitDiff /\ [][NextCompare]_vars

(* sessions that begin after two keys of typing and saving, so that undo *)
(* and redo move between snapshots on both sides of the saved baseline   *)
EditKeys == {"none", "type", "save"}

after_key(e, key) ==
  IF key = "type" THEN type_char(e, "a")
  ELSE IF key = "save" THEN save_file(e)
  ELSE e

InitSaved ==
  /\ \E file_text \in InitTexts, vcur \in BOOLEAN :
     \E key1 \in EditKeys, key2 \in EditKeys :
       Load(after_key(after_key(new(read_contents(file_text), vcur), key1),
                      key2))
  /\ ai_response_receiver = "None"
  /\ sessions = 0
  /\ HostIdle

NextSaved ==
  \/ TypeChar
  \/ SaveFile
  \/ Undo
  \/ Redo

SpecSaved == InitSaved /\ [][NextSaved]_vars

(* proposal requests: the host loop issues requests and polls for results *)
NextPoll ==
  \/ TypeChar
  \/ PromptRequest
  \/ PollOk
  \/ PollErr
  \/ WorkerLost
  \/ StatusExpires
  \/ QuitCommand
  \/ ApplyDiffChanges
  \/ CancelDiffMode

SpecPoll == InitDiff /\ [][NextPoll]_vars

(* the host loop with workers that deliver a result or end without one *)
NextWorker ==
  \/ TypeChar
  \/ PromptRequest
  \/ PollOk
  \/ PollErr
  \/ WorkerEnds
  \/ WorkerLost
  \/ StatusExpires
  \/ ApplyDiffChanges
  \/ CancelDiffMode

(* the loop polls on every pass and a worker thread runs to its end: the *)
(* outstanding worker delivers or ends, replaced workers end, and the    *)
(* status timeout is looked at on every pass                             *)
FairWorker ==
  /\ WF_vars(WorkerEnds \/ PollErr \/ PollOk)
  /\ WF_vars(WorkerLost)
  /\ WF_vars(StatusExpires)

SpecWorker == InitDiff /\ [][NextWorker]_vars /\ FairWorker

(* review sessions that start with the cursor moved off the first row *)
NextReview ==
  \/ MoveCursor
  \/ PromptCommand
  \/ PollOk
  \/ AcceptCurrentHunk
  \/ RejectCurrentHunk
  \/ NextHunk
  \/ ApplyDiffChanges
  \/ CancelDiffMode

SpecReview == InitDiff /\ [][NextReview]_vars

(* save the buffer and open the saved text again: the joined text goes    *)
(* through main.rs and Editor::new                                         *)
Reopen ==
  /\ ~panicked
  /\ UNCHANGED <<ai_response_receiver, sessions, host>>
  /\ Apply(new(read_contents(join(buffer)), virtual_cursor), "reopen")

RoundTripBuffers ==
  UNION { [1..n -> RoundTripLines] : n \in 1..MaxRoundTripLines }

(* any session whose buffer was typed into one of RoundTripBuffers *)
InitRoundTrip ==
  /\ \E b \in RoundTripBuffers, vcur \in BOOLEAN :
       Load([new(<<>>, vcur) EXCEPT !.buffer = b, !.modified = TRUE])
  /\ ai_response_receiver = "None"
  /\ sessions = 0
  /\ HostIdle

NextRoundTrip == Reopen

SpecRoundTrip == InitRoundTrip /\ [][NextRoundTrip]_vars

(* ---------------------- selections: fill, move, sort ------------------- *)
(* the cursor after a run of move_cursor calls: on a row of the buffer,    *)
(* past the end of its line only with the virtual cursor                   *)
cursor_at(e, y, x) == [e EXCEPT !.cursor_y = y, !.cursor_x = x]

cursor_reachable(e, y, x) ==
  /\ y < Len(e.buffer)
  /\ e.virtual_cursor \/ x <= width(e.buffer[y + 1])

PageUp ==
  /\ Editing
  /\ UNCHANGED <<ai_response_receiver, sessions, host>>
  /\ Apply(page_up(self), "page_up")

PageDown ==
  /\ Editing
  /\ UNCHANGED <<ai_response_receiver, sessions, host>>
  /\ Apply(page_down(self), "page_down")

SelectLine ==
  /\ Editing
  /\ UNCHANGED <<ai_response_receiver, sessions, host>>
  /\ Apply(select_line(self), "select_line")

SelectBlock ==
  /\ Editing
  /\ UNCHANGED <<ai_response_receiver, sessions, host>>
  /\ Apply(select_block(self), "select_block")

Deselect ==
  /\ Editing
  /\ UNCHANGED <<ai_response_receiver, sessions, host>>
  /\ Apply(deselect(self), "deselect")

FillSelection ==
  /\ Editing
  /\ HistoryRoom
  /\ UNCHANGED <<ai_response_receiver, sessions, host>>
  /\ \E fill_char \in FillChars :
       Apply(fill_selection(self, fill_char), "fill_selection")

MoveBlockRight ==
  /\ Editing
  /\ HistoryRoom
  /\ UNCHANGED <<ai_response_receiver, sessions, host>>
  /\ has_selection(self) =>
       \/ selection_rect(self).max_x < MaxSelCol
       \/ selection_mode = "Line"
            /\ selection_rect(self).max_x <= EditorVisibleWidth
  /\ Apply(move_block_right(self), "move_block_right")

MoveBlockLeft ==
  /\ Editing
  /\ HistoryRoom
  /\ UNCHANGED <<ai_response_receiver, sessions, host>>
  /\ Apply(move_block_left(self), "move_block_left")

SortBlock ==
  /\ Editing
  /\ HistoryRoom
  /\ UNCHANGED <<ai_response_receiver, sessions, host>>
  /\ \E sort_specs \in SortSpecLists :
       Apply(sort_block(self, sort_specs).editor, "sort_block")

(* editing sessions with paging *)
NextPaging ==
  \/ MoveCursor
  \/ PageUp
  \/ PageDown
  \/ TypeChar
  \/ DeleteChar
  \/ Backspace
  \/ InsertNewline
  \/ Undo
  \/ Redo

SpecPaging == Init /\ [][NextPaging]_vars

(* a session in which the cursor was moved and a selection made, or not *)
InitBlock ==
  /\ \E file_text \in BlockInitTexts, vcur \in BOOLEAN :
     \E y1 \in 0..MaxLines, x1 \in 0..MaxSelCol :
     \E y2 \in y1..MaxLines, x2 \in x1..MaxSelCol :
     \E mode \in {"None", "Line", "Block"} :
       LET e0 == new(read_contents(file_text), vcur)
           c1 == cursor_at(e0, y1, x1)
           e1 == IF mode = "Line" THEN select_line(c1)
                 ELSE IF mode = "Block" THEN select_block(c1)
                 ELSE c1
           c2 == cursor_at(e1, y2, x2)
           e2 == IF mode = "Line" THEN select_line(c2)
                 ELSE IF mode = "Block" THEN select_block(c2)
                 ELSE c2
       IN /\ cursor_reachable(e0, y1, x1)
          /\ cursor_reachable(e0, y2, x2)
          /\ Load(e2)
  /\ ai_response_receiver = "None"
  /\ sessions = 0
  /\ HostIdle

NextBlock ==
  \/ ToggleOverwrite
  \/ PageUp
  \/ PageDown
  \/ Deselect
  \/ FillSelection
  \/ MoveBlockRight
  \/ MoveBlockLeft
  \/ SortBlock

SpecBlock == InitBlock /\ [][NextBlock]_vars


(* --------------------------- search sessions --------------------------- *)
Scopes == {"All", "Line", "Block"}

(* the replacements explored grow no line beyond MaxSearchLineLen *)
SearchLinesFit(e) ==
  \A y \in 1..Len(e.buffer) : Len(e.buffer[y]) <= MaxSearchLineLen

Find ==
  /\ Editing
  /\ UNCHANGED <<ai_response_receiver, sessions, host>>
  /\ \E target \in SearchTargets, scope \in Scopes, case_sensitive \in BOOLEAN :
       Apply(find(self, target, scope, case_sensitive).editor, "find")

FindNext ==
  /\ Editing
  /\ UNCHANGED <<ai_response_receiver, sessions, host>>
  /\ Apply(find_next(self).editor, "find_next")

Replace ==
  /\ Editing
  /\ HistoryRoom
  /\ UNCHANGED <<ai_response_receiver, sessions, host>>
  /\ \E find_text \in SearchTargets, new_text \in ReplaceTexts,
        scope \in Scopes, all \in BOOLEAN, case_sensitive \in BOOLEAN :
       LET replaced == replace(self, find_text, new_text, scope, all,
                               case_sensitive).editor
       IN SearchLinesFit(replaced) /\ Apply(replaced, "replace")

ReplaceNext ==
  /\ Editing
  /\ UNCHANGED <<ai_response_receiver, sessions, host>>
  /\ LET replaced == replace_next(self).editor
     IN SearchLinesFit(replaced) /\ Apply(replaced, "replace_next")

(* a session with no selection, or with a block selected from the cursor's *)
(* first position to a later one                                           *)
InitSearch ==
  /\ \E file_text \in SearchInitTexts, vcur \in BOOLEAN, block \in BOOLEAN :
     \E y \in 0..MaxLines, x \in 0..MaxSelCol :
       LET e0 == new(read_contents(file_text), vcur)
       IN /\ cursor_reachable(e0, y, x)
          /\ ~block => (y = 0 /\ x = 0)
          /\ Load(IF block
                  THEN select_block(cursor_at(select_block(e0), y, x))
                  ELSE e0)
  /\ ai_response_receiver = "None"
  /\ sessions = 0
  /\ HostIdle

NextSearch ==
  \/ Find
  \/ FindNext

SpecSearch == InitSearch /\ [][NextSearch]_vars

NextReplace == Replace

(* replacements staged for one-at-a-time replacing: shorter than, as long *)
(* as and longer than the targets                                         *)
StagedReplaceTexts == ReplaceTexts \cup { <<"x", "x">> }

(* sessions that begin in the state a successful replace call without   *)
(* replace_all leaves: the matches of the scope found, the replacement  *)
(* staged and the cursor on the first match                             *)
InitStaged ==
  /\ \E file_text \in SearchInitTexts, vcur \in BOOLEAN, block \in BOOLEAN :
     \E y \in 0..MaxLines, x \in 0..MaxSelCol :
     \E find_text \in SearchTargets, new_text \in StagedReplaceTexts,
        scope \in Scopes, case_sensitive \in BOOLEAN :
       LET e0 == new(read_contents(file_text), vcur)
           e1 == IF block
                 THEN select_block(cursor_at(select_block(e0), y, x))
                 ELSE e0
       IN /\ cursor_reachable(e0, y, x)
          /\ ~block => (y = 0 /\ x = 0)
          /\ find_text # <<>>
          /\ (scope = "Block") => has_selection(e1)
          /\ \E staged \in {scope_matches(start_search(save_state(e1),
                                                        find_text, scope,
                                                        case_sensitive),
                                           scope, FALSE)} :
               /\ ~staged.panicked
               /\ staged.search_matches # <<>>
               /\ Load(move_to_match(
                         [staged EXCEPT !.replace_text = Some(new_text),
                                        !.replace_all = FALSE],
                         0))
  /\ ai_response_receiver = "None"
  /\ sessions = 0
  /\ HostIdle

NextStaged == ReplaceNext

SpecStaged == InitStaged /\ [][NextStaged]_vars

SpecReplace == InitSearch /\ [][NextReplace]_vars

(* ---------------------------- sort sessions ---------------------------- *)
SortAll ==
  /\ Editing
  /\ HistoryRoom
  /\ UNCHANGED <<ai_response_receiver, sessions, host>>
  /\ \E sort_specs \in SortSpecLists :
       Apply(sort_all(self, sort_specs).editor, "sort_all")

SortBuffers ==
  UNION { [1..n -> SortLines] : n \in 1..MaxSortLines }

InitSort ==
  /\ \E b \in SortBuffers, vcur \in BOOLEAN :
       Load(new(read_contents(join(b)), vcur))
  /\ ai_response_receiver = "None"
  /\ sessions = 0
  /\ HostIdle

NextSort == SortAll

SpecSort == InitSort /\ [][NextSort]_vars

(* --------------------- typing at a chosen column ----------------------- *)
TypeGlyph ==
  /\ Editing
  /\ HistoryRoom
  /\ UNCHANGED <<ai_response_receiver, sessions, host>>
  /\ \E c \in TypedGlyphs : Apply(type_char(self, c), "type_char")

InitType ==
  /\ \E file_text \in TypeInitTexts, vcur \in BOOLEAN, insert \in BOOLEAN :
     \E y \in 0..MaxLines, x \in 0..MaxTypeCol :
       LET e0 == new(read_contents(file_text), vcur)
           e1 == IF insert THEN toggle_overwrite(e0) ELSE e0
       IN /\ cursor_reachable(e0, y, x)
          /\ Load(cursor_at(e1, y, x))
  /\ ai_response_receiver = "None"
  /\ sessions = 0
  /\ HostIdle

NextType == TypeGlyph

SpecType == InitType /\ [][NextType]_vars

(* ------------------------------- claims -------------------------------- *)
NoHunkAccepted ==
  \A k \in 1..Len(diff_mode.hunks) : ~diff_mode.hunks[k].accepted

(* the results of the editing operations in the current state *)
EditResults ==
  {type_char(self, c) : c \in TypedChars}
    \cup {delete_char(self), backspace(self), insert_newline(self)}

(* C1: whenever undo() succeeds, undo() followed at once by redo() leaves  *)
(* the buffer line for line as it was before the undo().                   *)
C1_UndoThenRedo ==
  (Editing /\ can_undo(self)) => redo(undo(self)).buffer = buffer

(* C2: whenever redo() succeeds, redo() followed at once by undo() leaves  *)
(* the buffer line for line as it was before the redo(), also when the     *)
(* buffer was changed after the last undo without a snapshot (here: by a   *)
(* committed review).                                                      *)
C2_RedoThenUndo ==
  (Editing /\ can_redo(self)) => undo(redo(self)).buffer = buffer

(* C3: after an edit that changes the buffer from B to B', an immediately  *)
(* following undo() succeeds and restores exactly B.                       *)
C3_UndoRestoresPreEdit ==
  (Editing /\ ~read_only) =>
    \A e \in EditResults :
      e.buffer # buffer => (can_undo(e) /\ undo(e).buffer = buffer)

(* C4: with every hunk of a review accepted, the displayed buffer and the  *)
(* committed buffer equal the proposed buffer.                             *)
C4_AllAcceptedIsProposed ==
  (Reviewing /\ all_hunks_accepted(self)) =>
    /\ buffer = diff_mode.modified_buffer
    /\ apply_diff_changes(self).buffer = diff_mode.modified_buffer

(* C5: with no hunk of a review accepted (at its start, after rejectAll,   *)
(* after every accepted hunk was rejected again), the displayed buffer and *)
(* the committed buffer equal the original buffer.                         *)
C5_NoneAcceptedIsOriginal ==
  (Reviewing /\ NoHunkAccepted) =>
    /\ buffer = diff_mode.original_buffer
    /\ apply_diff_changes(self).buffer = diff_mode.original_buffer

C5_Witness ==
  /\ Reviewing
  /\ Len(diff_mode.hunks) >= 1
  /\ NoHunkAccepted
  /\ diff_mode.accept_all
  /\ last_op = "reject_current_hunk"

(* C6: the buffer has at least one line in every reachable state, also     *)
(* after the hunks of an empty proposal were accepted.                     *)
C6_BufferNeverEmpty == Len(buffer) >= 1

(* C7: the undo history has at least one entry and the pointer is valid:   *)
(* 0 <= undo_index < length(undo_history).                                 *)
C7_PointerValid ==
  /\ Len(undo_history) >= 1
  /\ 0 <= undo_index
  /\ undo_index < Len(undo_history)

C7_Witness ==
  /\ last_op = "redo"
  /\ undo_index = Len(undo_history) - 1
  /\ Len(undo_history) = MaxHistory

(* C8: history is linear: an operation that records a snapshot keeps the   *)
(* entries up to the pointer, discards every entry after it and appends    *)
(* the pre-edit buffer, so right after it the pointer is at the last entry *)
(* and redo() fails.                                                       *)
C8_LinearHistory ==
  [][ (last_op' \in SnapshotOps /\ ~read_only) =>
        /\ undo_history' = Append(SubSeq(undo_history, 1, undo_index + 1),
                                  buffer)
        /\ undo_index' = Len(undo_history') - 1
        /\ ~can_redo(self')
        /\ redo(self') = self' ]_vars

C8_Witness ==
  /\ last_op \in EditOps
  /\ discarded >= 1
  /\ undo_index = Len(undo_history) - 1

(* C9: joining the lines of a buffer with line breaks and building a       *)
(* buffer from the joined text gives the same line sequence, also when the *)
(* last line is empty.                                                     *)
C9_JoinSplitRoundTrip ==
  new(read_contents(join(buffer)), virtual_cursor).buffer = buffer

(* C10: the hunks of a review are ordered by strictly increasing old_start *)
(* and do not overlap: between consecutive hunks lies at least one matched *)
(* line, the same number in the original and in the proposed buffer.       *)
C10_HunksOrdered ==
  diff_mode.active =>
    \A k \in 1..(Len(diff_mode.hunks) - 1) :
      LET h == diff_mode.hunks[k]
          n == diff_mode.hunks[k + 1]
      IN /\ h.old_start < n.old_start
         /\ h.old_start + h.old_lines < n.old_start
         /\ h.new_start + h.new_lines < n.new_start
         /\ n.old_start - (h.old_start + h.old_lines)
              = n.new_start - (h.new_start + h.new_lines)

C10_Witness ==
  /\ diff_mode.active
  /\ Len(diff_mode.hunks) >= 2
  /\ last_op = "poll_ok"

(* the editors the mutating operations give when invoked now *)
MutatingResults ==
  {type_char(self, c) : c \in TypedChars}
    \cup {delete_char(self), backspace(self), insert_newline(self),
          move_block_left(self), move_block_right(self),
          replace_next(self).editor, undo(self), redo(self)}
    \cup {fill_selection(self, c) : c \in FillChars}
    \cup {sort_all(self, k).editor : k \in SortSpecLists}
    \cup {sort_block(self, k).editor : k \in SortSpecLists}
    \cup {replace(self, t, n, sc, all, cs).editor :
            t \in SearchTargets, n \in ReplaceTexts, sc \in Scopes,
            all \in BOOLEAN, cs \in BOOLEAN}

(* C11: while a diff review is active and the buffer read-only, every      *)
(* mutating operation (type_char, delete_char, backspace, insert_newline,  *)
(* fill_selection, move_block_left/right, sort_all, sort_block, replace,   *)
(* replace_next, undo, redo) leaves the buffer and the undo history as     *)
(* they are.                                                               *)
C11_ReadOnlyNoOp ==
  (Reviewing /\ read_only) =>
    \A e \in MutatingResults :
      e.buffer = buffer /\ e.undo_history = undo_history

(* what find, replace and sort_block return when invoked now *)
ReportingResults ==
  {find(self, t, sc, cs) : t \in SearchTargets, sc \in Scopes, cs \in BOOLEAN}
    \cup {replace(self, t, n, sc, all, cs) :
            t \in SearchTargets, n \in ReplaceTexts, sc \in Scopes,
            all \in BOOLEAN, cs \in BOOLEAN}
    \cup {sort_block(self, k) : k \in SortSpecLists}

(* C12: an operation that reports a failure of the user's input (an empty  *)
(* target, scope Block with nothing selected, nothing to replace, fill,    *)
(* sort or move with nothing selected) leaves the buffer as it was and     *)
(* pushes no history entry                                                 *)
C12_FailureLeavesState ==
  Editing =>
    /\ \A r \in ReportingResults :
         (~r.ret /\ ~r.editor.panicked) =>
           /\ r.editor.buffer = buffer
           /\ r.editor.undo_history = undo_history
    /\ ~has_selection(self) =>
         \A e \in {fill_selection(self, c) : c \in FillChars}
                    \cup {move_block_left(self), move_block_right(self)} :
           e.buffer = buffer /\ e.undo_history = undo_history

(* C13: the cursor's row is a row of the buffer in every state the editor  *)
(* reaches, also after undo and redo, after the rebuild that follows a     *)
(* hunk's acceptance or rejection, after apply_diff_changes and after      *)
(* cancel_diff_mode                                                        *)
C13_CursorRowInBuffer == ~panicked => cursor_y < Len(buffer)

(* C14: without the virtual cursor the cursor's column lies between 0 and  *)
(* the display width of the cursor's line, whatever cursor moves, pagings, *)
(* edits, fills, sorts, searches, undos and redos were made                *)
C14_CursorColumnInLine ==
  (~virtual_cursor /\ ~panicked /\ cursor_y < Len(buffer)) =>
    (0 <= cursor_x /\ cursor_x <= width(buffer[cursor_y + 1]))

(* a step that types at or past the end of the cursor's line, the virtual  *)
(* cursor on and the buffer writable                                       *)
TypesPastEnd ==
  /\ last_op' = "type_char"
  /\ virtual_cursor /\ ~read_only /\ ~panicked
  /\ cursor_y < Len(buffer)
  /\ cursor_x >= width(buffer[cursor_y + 1])

PaddedLine(c) ==
  buffer[cursor_y + 1]
    \o repeat(" ", cursor_x - width(buffer[cursor_y + 1]))
    \o <<c>>

(* C15 as stated: typing c at column k >= w turns the line into the old    *)
(* line, k-w spaces and c, moves the column to k+1 and changes no other    *)
(* line                                                                    *)
C15_TypePastEndAdvancesOne ==
  [][TypesPastEnd =>
       \E c \in TypedGlyphs :
         /\ buffer' = [buffer EXCEPT ![cursor_y + 1] = PaddedLine(c)]
         /\ cursor_x' = cursor_x + 1]_vars

(* C15: with the virtual cursor on and the buffer writable, typing c at    *)
(* column k >= w turns the line into the old line, k-w spaces and c, and   *)
(* moves the column to k plus the display width of c (k+1 for a glyph of   *)
(* width 1); no other line changes                                         *)
C15_TypePastEndAdvancesWidth ==
  [][TypesPastEnd =>
       \E c \in TypedGlyphs :
         /\ buffer' = [buffer EXCEPT ![cursor_y + 1] = PaddedLine(c)]
         /\ cursor_x' = cursor_x + CharWidth(c)
         /\ ~panicked']_vars

(* five spaces and 'Z' after typing 'Z' at column 5 of an empty line *)
C15_Witness ==
  /\ last_op = "type_char"
  /\ virtual_cursor
  /\ buffer = << <<" ", " ", " ", " ", " ", "Z">> >>
  /\ cursor_x = 6

(* the state after find("a", scope All, case-insensitive) on the buffer    *)
(* ["Banana", "apple"]                                                     *)
FoundAInBananaApple ==
  /\ last_op = "find"
  /\ ~panicked
  /\ buffer = << <<"B", "a", "n", "a", "n", "a">>,
                 <<"a", "p", "p", "l", "e">> >>
  /\ search_target = Some(<<"a">>)
  /\ search_scope = "All"
  /\ ~search_case_sensitive

(* C16 as stated: that search gives the matches (0,1,2), (0,3,4), (1,0,1)  *)
(* in this order                                                           *)
C16_BananaThreeMatches ==
  FoundAInBananaApple =>
    search_matches = << <<0, 1, 2>>, <<0, 3, 4>>, <<1, 0, 1>> >>

(* C16: that search gives a match for every "a" of every line, in reading  *)
(* order: (0,1,2), (0,3,4), (0,5,6), (1,0,1)                               *)
C16_BananaEveryMatch ==
  FoundAInBananaApple =>
    search_matches = << <<0, 1, 2>>, <<0, 3, 4>>, <<0, 5, 6>>, <<1, 0, 1>> >>

C16_Witness ==
  /\ FoundAInBananaApple
  /\ Len(search_matches) = 4
  /\ current_match_index = 0
  /\ cursor_y = 0 /\ cursor_x = 1

(* the keys of a line under a key list, one per key *)
RECURSIVE SortKeys(_, _, _)
SortKeys(line, sort_specs, i) ==
  IF i > Len(sort_specs) THEN <<>>
  ELSE <<unwrap(extract_sort_key(line, sort_specs[i][1], sort_specs[i][2]))>>
         \o SortKeys(line, sort_specs, i + 1)

(* the rows, each paired with its keys *)
RECURSIVE Keyed(_, _)
Keyed(rows, sort_specs) ==
  IF rows = <<>> THEN <<>>
  ELSE << <<Head(rows), SortKeys(Head(rows), sort_specs, 1)>> >>
         \o Keyed(Tail(rows), sort_specs)

(* keys_a goes strictly before keys_b: the first key that differs says so, *)
(* in the direction of that key                                            *)
GoesBefore(keys_a, keys_b, sort_specs) ==
  \E i \in 1..Len(sort_specs) :
    /\ \A j \in 1..(i - 1) : keys_a[j] = keys_b[j]
    /\ IF sort_specs[i][3]
       THEN str_cmp(keys_a[i], keys_b[i]) < 0
       ELSE str_cmp(keys_a[i], keys_b[i]) > 0

Occurrences(keyed_rows, line) ==
  Cardinality({k \in 1..Len(keyed_rows) : keyed_rows[k][1] = line})

(* the rows whose keys all tie with the given keys, in their order *)
TiedWith(keyed_rows, keys) ==
  LET ties(row) == row[2] = keys
  IN SelectSeq(keyed_rows, ties)

StableSorted(before, after, sort_specs) ==
  \A keyed_before \in {Keyed(before, sort_specs)} :
  \A keyed_after \in {Keyed(after, sort_specs)} :
     /\ Len(keyed_after) = Len(keyed_before)
     /\ \A k \in 1..Len(keyed_before) :
          /\ Occurrences(keyed_after, keyed_before[k][1])
               = Occurrences(keyed_before, keyed_before[k][1])
          /\ TiedWith(keyed_after, keyed_before[k][2])
               = TiedWith(keyed_before, keyed_before[k][2])
     /\ \A i \in 1..Len(keyed_after) : \A j \in (i + 1)..Len(keyed_after) :
          ~GoesBefore(keyed_after[j][2], keyed_after[i][2], sort_specs)

(* C17: sort_all with a key list gives a permutation of the buffer's lines *)
(* in the order of the multi-key comparator (the first key that differs    *)
(* decides), lines whose keys all tie keep their order; ["b1","a2","a1"]   *)
(* with one ascending key on column 0 gives ["a2","a1","b1"]; stated for   *)
(* the states in which SortAll takes its step                              *)
C17_SortAllStable ==
  (Editing /\ HistoryRoom) =>
    /\ \A sort_specs \in SortSpecLists :
         \A sorted \in {sort_all(self, sort_specs)} :
            /\ sorted.ret
            /\ ~sorted.editor.panicked
            /\ StableSorted(buffer, sorted.editor.buffer, sort_specs)
    /\ buffer = << <<"b", "1">>, <<"a", "2">>, <<"a", "1">> >> =>
         sort_all(self, << <<0, 1, TRUE>> >>).editor.buffer
           = << <<"a", "2">>, <<"a", "1">>, <<"b", "1">> >>

(* ["b1","a2","a1"] was sorted into ["a2","a1","b1"] *)
C17_Witness ==
  /\ last_op = "sort_all"
  /\ ~panicked
  /\ undo_history[Len(undo_history)]
       = << <<"b", "1">>, <<"a", "2">>, <<"a", "1">> >>
  /\ buffer = << <<"a", "2">>, <<"a", "1">>, <<"b", "1">> >>

(* the rows ["aaaaa", "bbbbb"] with a Block selection over rows 0-1 and    *)
(* columns 2-4                                                             *)
BlockOverFiveWideRows ==
  /\ Editing
  /\ buffer = << <<"a", "a", "a", "a", "a">>, <<"b", "b", "b", "b", "b">> >>
  /\ selection_mode = "Block"
  /\ has_selection(self)
  /\ selection_rect(self) = [min_y |-> 0, max_y |-> 1, min_x |-> 2, max_x |-> 4]

(* C18 as stated: fill_selection('x') then gives ["aaxxxa", "bbxxxb"] *)
C18_BlockFillSixWide ==
  BlockOverFiveWideRows =>
    fill_selection(self, "x").buffer
      = << <<"a", "a", "x", "x", "x", "a">>, <<"b", "b", "x", "x", "x", "b">> >>

(* C18: fill_selection('x') then overwrites columns 2-4 of both rows and   *)
(* keeps their width: ["aaxxx", "bbxxx"]                                   *)
C18_BlockFillWidthExact ==
  BlockOverFiveWideRows =>
    fill_selection(self, "x").buffer
      = << <<"a", "a", "x", "x", "x">>, <<"b", "b", "x", "x", "x">> >>

C18_Witness ==
  /\ last_op = "fill_selection"
  /\ ~panicked
  /\ undo_history[Len(undo_history)]
       = << <<"a", "a", "a", "a", "a">>, <<"b", "b", "b", "b", "b">> >>
  /\ buffer = << <<"a", "a", "x", "x", "x">>, <<"b", "b", "x", "x", "x">> >>
  /\ selection_mode = "None"

(* C19: cancel_diff_mode in an active session makes the buffer exactly the *)
(* buffer that was live when the session started (start_diff_mode keeps it *)
(* as original_buffer, and no accept, reject or navigation changes that    *)
(* copy), ends the session and discards the proposal                       *)
C19_CancelRestoresOriginal ==
  [][/\ (last_op' = "poll_ok" /\ diff_mode'.active) =>
          (~diff_mode.active /\ diff_mode'.original_buffer = buffer)
     /\ (diff_mode.active /\ diff_mode'.active) =>
          diff_mode'.original_buffer = diff_mode.original_buffer
     /\ (diff_mode.active /\ last_op' = "cancel_diff_mode") =>
          /\ buffer' = diff_mode.original_buffer
          /\ diff_mode' = Inactive
          /\ ~diff_mode'.active
          /\ diff_mode'.modified_buffer = <<>>
          /\ diff_mode'.hunks = <<>>]_vars

(* a review of ["a", "b", "c"] was cancelled *)
C19_Witness ==
  /\ last_op = "cancel_diff_mode"
  /\ ~panicked
  /\ ~diff_mode.active
  /\ buffer = << <<"a">>, <<"b">>, <<"c">> >>

(* C20: a poll that receives a proposal starts a review and makes the      *)
(* buffer read-only; the buffer is read-only in every state of the review  *)
(* and writable in the state the review ends in, by apply_diff_changes or  *)
(* by cancel_diff_mode                                                     *)
C20_ReadOnlyWhileReviewing ==
  [][/\ last_op' = "poll_ok" => (diff_mode'.active /\ read_only')
     /\ diff_mode'.active => read_only'
     /\ (diff_mode.active /\ ~diff_mode'.active /\ ~panicked') =>
          ~read_only']_vars

(* C21: when the poll receives a proposal error, no review session is
   started and nothing of the editor changes (buffer, undo history and
   pointer, read-only flag, cursor, ...); besides the consumed receiver
   only the status message changes, to Failure. *)
C21_PollErrorOnlyStatus ==
  [][last_op' = "poll_err" /\ ai_response_receiver # ai_response_receiver'
       => /\ ~diff_mode'.active
          /\ diff_mode' = diff_mode
          /\ buffer' = buffer
          /\ undo_history' = undo_history
          /\ undo_index' = undo_index
          /\ read_only' = read_only
          /\ self' = self
          /\ sessions' = sessions
          /\ dropped_results' = dropped_results
          /\ ai_status' = "Failure"]_vars

C21_Witness ==
  /\ last_op = "poll_err"
  /\ ai_status = "Failure"
  /\ ~diff_mode.active
  /\ ~read_only
  /\ Len(undo_history) > 1
  /\ ai_response_receiver = "None"

(* C22: at most one proposal is outstanding: two workers are never in
   flight together and no request's result is dropped undelivered. *)
C22_OneOutstandingProposal ==
  /\ workers <= 1
  /\ dropped_results = 0

(* the byte offset of the target's first occurrence in row y, if any, under *)
(* the case rule of the last search                                         *)
FirstOccurrence(y) ==
  str_find(case_folded(self, buffer[y + 1]),
           case_folded(self, unwrap(search_target)))

(* C23: after find with scope Line the match list holds, in increasing row
   order, exactly one match for every line of the buffer that contains the
   target, namely its first occurrence, and none for the other lines. *)
C23_LineScopeEveryLine ==
  (last_op = "find" /\ ~panicked /\ search_scope = "Line"
     /\ is_some(search_target))
  => LET rows == {y \in 0..(Len(buffer) - 1) : is_some(FirstOccurrence(y))}
     IN /\ {search_matches[i][1] : i \in 1..Len(search_matches)} = rows
        /\ \A i, j \in 1..Len(search_matches) :
              i < j => search_matches[i][1] < search_matches[j][1]
        /\ \A i \in 1..Len(search_matches) :
              /\ search_matches[i][1] \in rows
              /\ search_matches[i][2]
                   = unwrap(FirstOccurrence(search_matches[i][1]))

(* the match indexes that k consecutive find_next calls make current *)
RECURSIVE FindNextVisits(_, _)
FindNextVisits(e, k) ==
  IF k = 0 THEN <<>>
  ELSE <<find_next(e).editor.current_match_index>>
         \o FindNextVisits(find_next(e).editor, k - 1)

(* n find_next calls from this state visit each of the n matches once and *)
(* end on the match that is current now                                    *)
FindNextCycles ==
  (~panicked /\ search_matches # <<>>)
  => LET n == Len(search_matches)
     IN \A visits \in {FindNextVisits(self, n)} :
          /\ {visits[i] : i \in 1..n} = 0..(n - 1)
          /\ visits[n] = current_match_index

(* find_next on an empty match list fails and changes nothing *)
FindNextEmptyFails ==
  (~panicked /\ search_matches = <<>>)
  => find_next(self) = returns(self, FALSE)

(* a find_next step makes (index + 1) mod n current, keeps the match list *)
(* and the buffer and puts the cursor on that match                        *)
FindNextStep ==
  (last_op' = "find_next" /\ search_matches # <<>>)
  => /\ current_match_index'
          = (current_match_index + 1) % Len(search_matches)
     /\ search_matches' = search_matches
     /\ buffer' = buffer
     /\ cursor_y' = search_matches[current_match_index' + 1][1]
     /\ cursor_x' = search_matches[current_match_index' + 1][2]
     /\ find_next(self).ret

(* C24: find_next with n > 0 matches makes (index + 1) mod n the current
   match, leaves match list and buffer alone and moves the cursor to that
   match, so n calls visit every match once and return to the starting
   match; with no matches it fails and changes nothing. *)
C24_FindNextCycles ==
  /\ []FindNextCycles
  /\ []FindNextEmptyFails
  /\ [][FindNextStep]_vars
  /\ [][(last_op' = "find_next" /\ search_matches = <<>>)
          => UNCHANGED <<self, search_matches>>]_vars

C24_Witness ==
  /\ last_op = "find_next"
  /\ Len(search_matches) >= 3
  /\ current_match_index = 0
  /\ cursor_y = search_matches[1][1]
  /\ cursor_x = search_matches[1][2]

(* a line with the first occurrence of the target, if any, replaced *)
ReplaceFirst(line, find_text, new_text, case_sensitive) ==
  LET fold(text) == IF case_sensitive THEN text ELSE to_lowercase(text)
      n == Len(find_text)
      hits == {k \in 1..(Len(line) - n + 1) :
                 SubSeq(fold(line), k, k + n - 1) = fold(find_text)}
      first == CHOOSE k \in hits : \A j \in hits : k <= j
  IN IF hits = {} THEN line
     ELSE SubSeq(line, 1, first - 1) \o new_text
            \o SubSeq(line, first + n, Len(line))

(* a line changed only inside the columns min_x..max_x *)
OnlyColumnsChanged(old_line, new_line, min_x, max_x) ==
  LET before == CharsBefore(old_line, column_to_byte_index(old_line, min_x))
      after == Len(old_line)
                 - CharsBefore(old_line, column_to_byte_index(old_line, max_x + 1))
  IN /\ Len(new_line) >= before + after
     /\ SubSeq(new_line, 1, before) = SubSeq(old_line, 1, before)
     /\ SubSeq(new_line, Len(new_line) - after + 1, Len(new_line))
          = SubSeq(old_line, Len(old_line) - after + 1, Len(old_line))

(* the successful replace-all calls that can be made now, by scope *)
ReplacedAll(scope, find_text, new_text, case_sensitive) ==
  replace(self, find_text, new_text, scope, TRUE, case_sensitive)

(* C25: replace with replace_all changes only text covered by the match
   list of the scope: with scope Block every row outside the selected rows
   is unchanged and a selected row changes only inside the selected
   columns; with scope Line every line has at most its first occurrence
   replaced (lines without a match are unchanged). *)
C25_ReplaceAllWithinScope ==
  (Editing /\ HistoryRoom) =>
    \A find_text \in SearchTargets, new_text \in ReplaceTexts,
       case_sensitive \in BOOLEAN :
      /\ \A r \in {ReplacedAll("Line", find_text, new_text, case_sensitive)} :
            (r.ret /\ ~r.editor.panicked) =>
              r.editor.buffer
                = [y \in 1..Len(buffer) |->
                     ReplaceFirst(buffer[y], find_text, new_text,
                                  case_sensitive)]
      /\ \A r \in {ReplacedAll("Block", find_text, new_text, case_sensitive)} :
            (r.ret /\ ~r.editor.panicked) =>
              /\ Len(r.editor.buffer) = Len(buffer)
              /\ \A y \in 1..Len(buffer) :
                    IF y - 1 \in selection_rect(self).min_y
                                   ..selection_rect(self).max_y
                    THEN OnlyColumnsChanged(buffer[y], r.editor.buffer[y],
                                            selection_rect(self).min_x,
                                            selection_rect(self).max_x)
                    ELSE r.editor.buffer[y] = buffer[y]

(* the cursor is exactly at the end of a line that is not the last one *)
AtEndOfInnerLine ==
  /\ cursor_y < Len(buffer) - 1
  /\ cursor_x = width(buffer[cursor_y + 1])

(* C26: delete_char on a writable buffer with the cursor exactly at the end
   of a line that is not the last merges the next line into it: one line
   fewer, and the current line is the concatenation of the two; with the
   virtual cursor on as well as off. *)
C26_DeleteAtLineEndMerges ==
  [][(last_op' = "delete_char" /\ ~read_only /\ AtEndOfInnerLine)
       => /\ Len(buffer') = Len(buffer) - 1
          /\ buffer'[cursor_y + 1]
               = buffer[cursor_y + 1] \o buffer[cursor_y + 2]]_vars

(* the cursor is in virtual space: beyond the width of its line *)
InVirtualSpace ==
  /\ virtual_cursor
  /\ cursor_y < Len(buffer)
  /\ cursor_x > width(buffer[cursor_y + 1])

(* C27: delete_char and backspace with the cursor in virtual space change
   nothing: buffer, cursor, modified flag, undo history and undo pointer
   are as before. *)
C27_VirtualSpaceNoOp ==
  [][(last_op' \in {"delete_char", "backspace"} /\ InVirtualSpace)
       => UNCHANGED <<buffer, cursor_x, cursor_y, modified,
                      undo_history, undo_index>>]_vars

(* in a review with hunks the current hunk index is an index of a hunk *)
CurrentHunkInRange ==
  (diff_mode.active /\ diff_mode.hunks # <<>>)
  => diff_mode.current_hunk \in 0..(Len(diff_mode.hunks) - 1)

(* next_hunk at the last hunk and prev_hunk at the first fail and keep the *)
(* index; no navigation step changes the hunks or their accepted flags     *)
HunkNavigationStep ==
  /\ (last_op' = "next_hunk"
        /\ diff_mode.current_hunk = Len(diff_mode.hunks) - 1)
     => /\ ~next_hunk_ret(self)
        /\ diff_mode'.current_hunk = diff_mode.current_hunk
  /\ (last_op' = "prev_hunk" /\ diff_mode.current_hunk = 0)
     => /\ ~prev_hunk_ret(self)
        /\ diff_mode'.current_hunk = diff_mode.current_hunk
  /\ (last_op' = "next_hunk"
        /\ diff_mode.current_hunk < Len(diff_mode.hunks) - 1)
     => /\ next_hunk_ret(self)
        /\ diff_mode'.current_hunk = diff_mode.current_hunk + 1
  /\ (last_op' = "prev_hunk" /\ diff_mode.current_hunk > 0)
     => /\ prev_hunk_ret(self)
        /\ diff_mode'.current_hunk = diff_mode.current_hunk - 1
  /\ last_op' \in {"next_hunk", "prev_hunk"}
     => diff_mode'.hunks = diff_mode.hunks

(* C28: in an active review with at least one hunk the current hunk index
   is always within 0 .. hunk count - 1; next_hunk at the last hunk and
   prev_hunk at the first fail and leave the index unchanged (no
   wraparound), and navigation never changes a hunk's accepted flag. *)
C28_HunkIndexInRange ==
  /\ []CurrentHunkInRange
  /\ [][HunkNavigationStep]_vars

C28_Witness ==
  /\ last_op = "next_hunk"
  /\ diff_mode.active
  /\ Len(diff_mode.hunks) >= 2
  /\ diff_mode.current_hunk = Len(diff_mode.hunks) - 1
  /\ diff_mode.hunks[1].accepted

(* C29: a sort key range that starts beyond a line's content (start column
   s greater than the line's width) is extracted without failure and holds
   space padding only, none of the line's own characters. *)
C29_KeyBeyondContentBlank ==
  \A y \in 1..Len(buffer), start_col \in 0..MaxKeyCol,
     end_col \in 0..MaxKeyCol :
    (start_col > width(buffer[y]) /\ start_col < end_col)
    => \A key \in {extract_sort_key(buffer[y], start_col, end_col)} :
         /\ is_some(key)
         /\ \A i \in 1..Len(unwrap(key)) : unwrap(key)[i] = " "

(* the display cells of a line: a glyph of width two takes two cells *)
RECURSIVE Cells(_)
Cells(line) ==
  IF line = <<>> THEN <<>>
  ELSE [k \in 1..CharWidth(Head(line)) |-> Head(line)] \o Cells(Tail(line))

(* the cell at a column, a space where the line has no content *)
CellAt(line, column) ==
  IF column < Len(Cells(line)) THEN Cells(line)[column + 1] ELSE " "

(* a row after a block fill of the columns min_x..max_x with fill_char *)
BlockFilledRow(old_line, new_line, min_x, max_x, fill_char) ==
  /\ Len(Cells(new_line)) >= max_x + 1
  /\ \A column \in 0..(Len(Cells(new_line)) - 1) :
        IF column < min_x
        THEN Cells(new_line)[column + 1] = CellAt(old_line, column)
        ELSE column <= max_x => Cells(new_line)[column + 1] = fill_char

(* C30: fill_selection in Block mode writes the fill character into exactly
   the columns min..max of every selected row; a row narrower than the
   rectangle's left column is padded with spaces up to that column first,
   the characters at columns below min are unchanged on every row, and
   afterwards the selection is cleared. *)
C30_BlockFillColumns ==
  [][(last_op' = "fill_selection" /\ has_selection(self)
        /\ selection_mode = "Block")
       => /\ \E fill_char \in FillChars :
               \A y \in 1..Len(buffer) :
                 (y - 1 \in selection_rect(self).min_y
                              ..selection_rect(self).max_y)
                 => BlockFilledRow(buffer[y], buffer'[y],
                                   selection_rect(self).min_x,
                                   selection_rect(self).max_x, fill_char)
          /\ selection_mode' = "None"
          /\ selection_start' = None
          /\ selection_end' = None]_vars

(* the selection's bounds after a step are those before it, moved by dx *)
SelectionShifted(dx) ==
  selection_rect(self)'
    = [min_y |-> selection_rect(self).min_y,
       max_y |-> selection_rect(self).max_y,
       min_x |-> selection_rect(self).min_x + dx,
       max_x |-> selection_rect(self).max_x + dx]

(* C31: move_block_right with a selection moves both column bounds of the
   selection one to the right, move_block_left with the left bound above 0
   moves both one to the left, in overwrite and in insert mode alike; the
   row bounds and the column width of the selection stay. *)
C31_SelectionFollowsMove ==
  [][/\ (last_op' = "move_block_right" /\ has_selection(self)
           /\ ~panicked')
        => SelectionShifted(1)
     /\ (last_op' = "move_block_left" /\ has_selection(self)
           /\ selection_rect(self).min_x > 0 /\ ~panicked')
        => SelectionShifted(-1)]_vars

(* the match that replace_next is about to replace *)
CurrentMatch == search_matches[current_match_index + 1]

(* the matches of the scope in the buffer as it is after the step *)
RecomputedMatches ==
  scope_matches([self EXCEPT !.search_matches = <<>>,
                             !.current_match_index = 0],
                search_scope, FALSE).search_matches

(* C32: replace_next with matches and a staged replacement replaces exactly
   the text of the current match by the replacement, whether that is
   shorter, as long or longer; every other character of the row and every
   other row stay; the match list is then recomputed from the new buffer
   and the current index is inside it whenever it is not empty. *)
C32_ReplaceNextExact ==
  [][(last_op' = "replace_next" /\ search_matches # <<>>
        /\ is_some(replace_text)
        /\ current_match_index < Len(search_matches) /\ ~panicked')
       => /\ Len(buffer') = Len(buffer)
          /\ \A y \in 1..Len(buffer) :
                buffer'[y]
                  = IF y = CurrentMatch[1] + 1
                    THEN str_replace_range(buffer[y], CurrentMatch[2],
                                           CurrentMatch[3],
                                           unwrap(replace_text))
                    ELSE buffer[y]
          /\ search_matches' = RecomputedMatches'
          /\ search_matches' # <<>>
               => current_match_index' < Len(search_matches')]_vars

(* mark_as_saved records the buffer as the baseline, clears the modified *)
(* flag and leaves the history and its pointer alone                     *)
MarkAsSavedFrame ==
  /\ mark_as_saved(self).last_save_state = buffer
  /\ ~mark_as_saved(self).modified
  /\ mark_as_saved(self).undo_history = undo_history
  /\ mark_as_saved(self).undo_index = undo_index
  /\ mark_as_saved(self).buffer = buffer

(* the baseline is the initial buffer until a save, which makes it the *)
(* buffer saved; no other step writes it                               *)
BaselineStep ==
  IF last_op' = "save_file" THEN last_save_state' = buffer
  ELSE last_save_state' = last_save_state

(* a successful undo or redo sets modified exactly when the restored *)
(* buffer differs from the baseline                                  *)
RestoreSetsModified ==
  /\ (last_op' = "undo" /\ undo_index > 0)
     => /\ buffer' = undo_history[undo_index]
        /\ modified' = (buffer' # last_save_state)
  /\ (last_op' = "redo" /\ undo_index < Len(undo_history) - 1)
     => /\ buffer' = undo_history[undo_index + 2]
        /\ modified' = (buffer' # last_save_state)

(* C33: after every successful undo or redo the modified flag is true
   exactly when the restored buffer differs from the buffer recorded by the
   last mark_as_saved (the initial buffer if there was none); mark_as_saved
   clears the flag and leaves the undo history and pointer unchanged. *)
C33_ModifiedAgainstBaseline ==
  /\ []MarkAsSavedFrame
  /\ [][BaselineStep]_vars
  /\ [][RestoreSetsModified]_vars

(* an undo that lands on the saved buffer and a redo that leaves it *)
C33_Witness ==
  /\ last_op = "redo"
  /\ modified
  /\ buffer # last_save_state
  /\ undo_index > 0
  /\ undo_history[undo_index] = last_save_state

(* the contents of a hunk's Added records, in order *)
RECURSIVE AddedLines(_)
AddedLines(hunk_lines) ==
  IF hunk_lines = <<>> THEN <<>>
  ELSE (IF Head(hunk_lines).tag = "Added"
        THEN <<Head(hunk_lines).content>> ELSE <<>>)
         \o AddedLines(Tail(hunk_lines))

(* the original from line `from` on, with the lines of every accepted hunk *)
(* replaced in place by the hunk's Added lines                             *)
RECURSIVE ReplacedInPlace(_, _, _)
ReplacedInPlace(original, hunks, from) ==
  IF hunks = <<>> THEN SubSeq(original, from + 1, Len(original))
  ELSE LET h == Head(hunks)
       IN (IF h.accepted
           THEN SubSeq(original, from + 1, h.old_start)
                  \o AddedLines(h.lines)
           ELSE SubSeq(original, from + 1, h.old_start + h.old_lines))
            \o ReplacedInPlace(original, Tail(hunks),
                               h.old_start + h.old_lines)

(* C34: for any set of accepted hunks the displayed buffer of a review, and
   the buffer a commit gives, is the original in which each accepted hunk's
   old lines are replaced in place by that hunk's Added lines in order, all
   other lines keeping content and relative position. *)
C34_AcceptedHunksInPlace ==
  Reviewing =>
    /\ buffer = ReplacedInPlace(diff_mode.original_buffer, diff_mode.hunks, 0)
    /\ apply_diff_changes(self).buffer
         = ReplacedInPlace(diff_mode.original_buffer, diff_mode.hunks, 0)

(* the contents of a hunk's Removed records, in order *)
RECURSIVE RemovedLines(_)
RemovedLines(hunk_lines) ==
  IF hunk_lines = <<>> THEN <<>>
  ELSE (IF Head(hunk_lines).tag = "Removed"
        THEN <<Head(hunk_lines).content>> ELSE <<>>)
         \o RemovedLines(Tail(hunk_lines))

(* the lines of a buffer from line `from` on that lie in none of the *)
(* ranges <<start, count>>                                            *)
RECURSIVE OutsideRanges(_, _, _)
OutsideRanges(buf, ranges, from) ==
  IF ranges = <<>> THEN SubSeq(buf, from + 1, Len(buf))
  ELSE SubSeq(buf, from + 1, Head(ranges)[1])
         \o OutsideRanges(buf, Tail(ranges), Head(ranges)[1] + Head(ranges)[2])

(* the states the loop of compute_diff can be in while it runs *)
DiffLoopStates(original, modified_buffer) ==
  { [hunks |-> <<>>, i |-> i, j |-> j,
     hunk_start_original |-> 0, hunk_start_modified |-> 0,
     current_hunk_lines |-> <<>>, in_hunk |-> in_hunk] :
      i \in 0..Len(original), j \in 0..Len(modified_buffer),
      in_hunk \in BOOLEAN }

(* every iteration advances the original or the proposed index *)
DiffStepAdvances(original, modified_buffer) ==
  \A d \in DiffLoopStates(original, modified_buffer) :
    (d.i < Len(original) \/ d.j < Len(modified_buffer))
    => \A n \in {compute_diff_step(original, modified_buffer, d)} :
         /\ n.i \in {d.i, d.i + 1} /\ n.i <= Len(original)
         /\ n.j \in {d.j, d.j + 1} /\ n.j <= Len(modified_buffer)
         /\ n.i + n.j > d.i + d.j

(* every line is matched or recorded in exactly one hunk *)
DiffAccountsForLines(original, modified_buffer, hunks) ==
  /\ \A k \in 1..Len(hunks) :
        /\ hunks[k].old_lines = Len(RemovedLines(hunks[k].lines))
        /\ hunks[k].new_lines = Len(AddedLines(hunks[k].lines))
        /\ Len(hunks[k].lines) = hunks[k].old_lines + hunks[k].new_lines
        /\ hunks[k].old_start + hunks[k].old_lines <= Len(original)
        /\ hunks[k].new_start + hunks[k].new_lines <= Len(modified_buffer)
        /\ RemovedLines(hunks[k].lines)
             = SubSeq(original, hunks[k].old_start + 1,
                      hunks[k].old_start + hunks[k].old_lines)
        /\ AddedLines(hunks[k].lines)
             = SubSeq(modified_buffer, hunks[k].new_start + 1,
                      hunks[k].new_start + hunks[k].new_lines)
        /\ k < Len(hunks) =>
             /\ hunks[k].old_start + hunks[k].old_lines
                  <= hunks[k + 1].old_start
             /\ hunks[k].new_start + hunks[k].new_lines
                  <= hunks[k + 1].new_start
  /\ OutsideRanges(original,
                   [k \in 1..Len(hunks) |->
                      <<hunks[k].old_start, hunks[k].old_lines>>], 0)
       = OutsideRanges(modified_buffer,
                       [k \in 1..Len(hunks) |->
                          <<hunks[k].new_start, hunks[k].new_lines>>], 0)

(* C35: the one-pass diff terminates for every pair of buffers: each loop
   iteration advances the original or the proposed index; at the end every
   original line is matched or a Removed record of exactly one hunk, every
   proposed line matched or an Added record of exactly one hunk, each
   hunk's old_lines and new_lines are its numbers of Removed and Added
   records; identical buffers give no hunk. *)
C35_DiffTerminatesAndAccounts ==
  diff_mode.active =>
    /\ DiffStepAdvances(diff_mode.original_buffer, diff_mode.modified_buffer)
    /\ Len(diff_mode.hunks)
         = Len(compute_diff(diff_mode.original_buffer,
                            diff_mode.modified_buffer))
    /\ DiffAccountsForLines(diff_mode.original_buffer,
                            diff_mode.modified_buffer, diff_mode.hunks)
    /\ (diff_mode.original_buffer = diff_mode.modified_buffer)
         => diff_mode.hunks = <<>>

C35_Witness ==
  /\ diff_mode.active
  /\ Len(diff_mode.hunks) = 2
  /\ \A k \in 1..2 : /\ diff_mode.hunks[k].old_lines = 1
                      /\ diff_mode.hunks[k].new_lines = 1
  /\ Len(diff_mode.original_buffer) = 3

(* a review of a proposal that equals the buffer has no hunk *)
C35_WitnessIdentical ==
  /\ diff_mode.active
  /\ diff_mode.original_buffer = diff_mode.modified_buffer
  /\ diff_mode.hunks = <<>>

(* the matches of a target in one line: one for every position at which *)
(* it occurs, by increasing start; the target is folded already          *)
RECURSIVE OccurrencesFrom(_, _, _, _)
OccurrencesFrom(folded_line, row, k, folded_target) ==
  LET n == Len(folded_target)
      start == len(SubSeq(folded_line, 1, k - 1))
  IN IF k + n - 1 > Len(folded_line) THEN <<>>
     ELSE (IF SubSeq(folded_line, k, k + n - 1) = folded_target
           THEN << <<row, start, start + len(folded_target)>> >> ELSE <<>>)
            \o OccurrencesFrom(folded_line, row, k + 1, folded_target)

(* the matches in every row of the buffer from row y on, in row order *)
RECURSIVE OccurrencesInRows(_, _, _)
OccurrencesInRows(y, target, case_sensitive) ==
  LET fold(text) == IF case_sensitive THEN text ELSE to_lowercase(text)
  IN IF y >= Len(buffer) THEN <<>>
     ELSE OccurrencesFrom(fold(buffer[y + 1]), y, 1, fold(target))
            \o OccurrencesInRows(y + 1, target, case_sensitive)

(* C36: find with a non-empty target and scope All gives exactly one match
   for every position at which the (case-folded, if asked) target occurs in
   a line, overlapping occurrences included, ordered by row and then by
   start, each with end = start + target length > start and end <= line
   length; find succeeds iff the list is not empty and the cursor is then on
   the first match. *)
C36_FindAllEveryOccurrence ==
  Editing
  => \A target \in SearchTargets \ {<<>>}, case_sensitive \in BOOLEAN :
       \A r \in {find(self, target, "All", case_sensitive)} :
         LET found == r.editor.search_matches
         IN /\ ~r.editor.panicked
            /\ found = OccurrencesInRows(0, target, case_sensitive)
            /\ \A i \in 1..Len(found) :
                  /\ found[i][3] = found[i][2] + len(target)
                  /\ found[i][3] > found[i][2]
                  /\ found[i][3] <= len(buffer[found[i][1] + 1])
            /\ r.ret = (found # <<>>)
            /\ r.ret => /\ r.editor.cursor_y = found[1][1]
                        /\ r.editor.cursor_x = found[1][2]

(* replacements for replace-all: empty, of another letter, and one that *)
(* contains the target "a"                                              *)
GrowingReplaceTexts == ReplaceTexts \cup { <<"a", "a">> }

(* a line with every occurrence of the target from character k on replaced, *)
(* left to right, the scan resuming just past each inserted replacement     *)
RECURSIVE ReplaceEach(_, _, _, _, _)
ReplaceEach(line, find_text, new_text, case_sensitive, k) ==
  LET fold(text) == IF case_sensitive THEN text ELSE to_lowercase(text)
      n == Len(find_text)
  IN IF k > Len(line) THEN <<>>
     ELSE IF /\ k + n - 1 <= Len(line)
             /\ SubSeq(fold(line), k, k + n - 1) = fold(find_text)
     THEN new_text \o ReplaceEach(line, find_text, new_text, case_sensitive,
                                  k + n)
     ELSE <<line[k]>> \o ReplaceEach(line, find_text, new_text,
                                     case_sensitive, k + 1)

(* C37: replace with replace_all returns for every non-empty target and
   every replacement, a replacement that contains the target and an empty
   one included: the scan of a line resumes just past the inserted
   replacement, so each occurrence of the original line is replaced once and
   replacement text is never replaced again. *)
C37_ReplaceAllTerminates ==
  (Editing /\ HistoryRoom) =>
    \A find_text \in SearchTargets \ {<<>>},
       new_text \in GrowingReplaceTexts, case_sensitive \in BOOLEAN :
      \A r \in {replace(self, find_text, new_text, "All", TRUE,
                        case_sensitive)} :
        /\ ~r.editor.panicked
        /\ r.ret =>
              r.editor.buffer
                = [y \in 1..Len(buffer) |->
                     ReplaceEach(buffer[y], find_text, new_text,
                                 case_sensitive, 1)]

(* how often a line occurs among the rows of a rectangle *)
TimesInRows(buf, r, line) ==
  Cardinality({ y \in rect_rows(buf, r) : buf[y] = line })

(* C38: sort_block on a Line selection changes only the rows of the
   selection: rows outside it are unchanged, the rows inside it are the same
   lines as before, each as often as before, and the number of lines is
   unchanged; on a Block selection every row keeps the characters left of
   and right of the selected columns and the number of lines is
   unchanged. *)
C38_SortBlockFrame ==
  [][(last_op' = "sort_block" /\ has_selection(self) /\ ~panicked')
     => LET r == selection_rect(self)
        IN /\ Len(buffer') = Len(buffer)
           /\ \A y \in (1..Len(buffer)) \ rect_rows(buffer, r) :
                 buffer'[y] = buffer[y]
           /\ selection_mode = "Line"
                => \A y \in rect_rows(buffer, r) :
                     TimesInRows(buffer', r, buffer[y])
                       = TimesInRows(buffer, r, buffer[y])
           /\ selection_mode = "Block"
                => \A y \in rect_rows(buffer, r) :
                     OnlyColumnsChanged(buffer[y], buffer'[y],
                                        r.min_x, r.max_x)]_vars

C38_Witness ==
  /\ last_op = "sort_block"
  /\ selection_mode = "Block"
  /\ ~panicked
  /\ buffer = << <<"a", "1">>, <<"b">> >>

(* C39: with a fair host loop and fair workers every dispatched request is
   resolved in the end: the slot of the pending receiver is cleared again
   and the in-progress status gives way to a success or a failure, whatever
   the worker's outcome, a worker that ends without sending included. *)
C39_EveryRequestResolved ==
  /\ (ai_response_receiver # "None") ~> (ai_response_receiver = "None")
  /\ (ai_status = "InProgress") ~> (ai_status \in {"Success", "Failure"})

(* the column at which insert_newline splits a line for a cursor at column *)
(* x: the first column from x on at which a character starts, or the      *)
(* line's width where there is none                                        *)
SplitColumn(line, x) ==
  LET starts == { width(SubSeq(line, 1, k)) : k \in 0..Len(line) }
      from_x == { c \in starts : c >= x }
  IN IF from_x = {} THEN width(line)
     ELSE CHOOSE c \in from_x : \A other \in from_x : c <= other

(* C40: on a writable buffer insert_newline followed at once by backspace
   gives back the buffer as it was, line for line, for every cursor position
   (a cursor in virtual space included), with the cursor on the row it was
   on, at the column where the line was split. *)
C40_NewlineBackspaceRestores ==
  (Editing /\ ~read_only) =>
    \A r \in {backspace(insert_newline(self))} :
      /\ ~r.panicked
      /\ r.buffer = buffer
      /\ r.cursor_y = cursor_y
      /\ r.cursor_x = SplitColumn(buffer[cursor_y + 1], cursor_x)

C40_Witness ==
  /\ Editing
  /\ ~read_only
  /\ cursor_x > width(buffer[cursor_y + 1])
  /\ Len(insert_newline(self).buffer) = Len(buffer) + 1
  /\ backspace(insert_newline(self)).buffer = buffer
  /\ backspace(insert_newline(self)).cursor_x = width(buffer[cursor_y + 1])

====
